---- MODULE Spec2Model ----
(***************************************************************************)
(* Model of kubectl-config-cleanup's concurrent Run (package cleanup):     *)
(* the worker pool of testConnection goroutines, the work queue, the two   *)
(* unbuffered result channels, the progress goroutine, the accumulator     *)
(* (keepContext / cleanupContext) and the zombie phase.                    *)
(*                                                                         *)
(* Names of contexts, clusters and users are small integers.  A map of the *)
(* kubeconfig is a function whose DOMAIN is the map's key set.             *)
(***************************************************************************)
EXTENDS Integers, Sequences, FiniteSets, Bags, TLC

\* ------------------------------------------------------------------ bounds
\* Stand-in for the literal 25 of Run (the cap on numWorkers), scaled down.
MaxWorkers == 1
\* Stand-in for the literal 100 of Run (capacity of the contexts channel),
\* scaled down.
QueueCap == 1
\* Largest number of contexts of a kubeconfig whose references are drawn freely.
MaxContexts == 2
\* Number of cluster names and of user names a kubeconfig draws from.
MaxClusters == 2
MaxUsers == 2
\* Contexts beyond what the queue and the workers can hold together.
ExtraContexts == 1
\* Number of contexts of the kubeconfig in which every context has a cluster
\* and a user of its own.
ScenarioContexts == 3

\* Largest kubeconfig of the queue-pressure inputs: one more context than
\* the buffered queue plus every started worker can hold.
QueueContexts == QueueCap + MaxWorkers + 1 + ExtraContexts

ClusterNames == 1..MaxClusters
UserNames == 1..MaxUsers

VARIABLES
    raw,              \* o.raw: the starting kubeconfig (until init has run:
                      \* the kubeconfig that LoadFromFile finds)
    IgnoreContexts,   \* o.IgnoreContexts: a slice of context names (until init
                      \* has run: the names the ignore file lists)
    CleanupClusters,  \* o.CleanupClusters
    CleanupUsers,     \* o.CleanupUsers
    PrintRemoved,     \* o.PrintRemoved
    PrintRaw,         \* o.PrintRaw
    KubeconfigPath,   \* o.KubeconfigPath: until init has run, the --kubeconfig value
    envKubeconfig,    \* os.Getenv("KUBECONFIG")
    homeDir,          \* homedir.HomeDir()
    shortened,        \* the cluster and user entries ShortenConfig has redacted
    Save,             \* o.Save (the variant of the command that has --save)
    saved,            \* the configs written to the kubeconfig file by WriteToFile
    cmdErr,           \* the error RunE returns ("none": nil, or no return yet)
    out,              \* the objects handed to o.printObj for o.ioStreams.Out
    result,           \* o.result: configs that are kept
    removed,          \* o.removed: configs that were removed
    contexts,         \* the buffered channel of context names
    contextsClosed,   \* close(contexts) has run
    resultsClosed,    \* close(success); close(failure) have run
    completed,        \* the atomic counter
    mainPc,           \* position of Run
    toEnqueue,        \* keys the range loop of Run has not sent yet
    received,         \* iterations done by the accumulation loop
    workers,          \* the testConnection goroutines: a bag of their local states
    tickerPc,         \* position of the progress goroutine
    reported,         \* the count of the last progress message (-1: none)
    zombieClusters,   \* local of Run
    zombieUsers,      \* local of Run
    hist              \* per context: times enqueued, dequeued, probed, outcome sent

\* the environment of the process, and what belongs to --save
environment == <<envKubeconfig, homeDir>>
saveVars == <<Save, saved>>

vars == <<raw, IgnoreContexts, CleanupClusters, CleanupUsers, PrintRemoved,
          PrintRaw, KubeconfigPath, environment, shortened, saveVars,
          cmdErr, out, result, removed,
          contexts, contextsClosed, resultsClosed, completed, mainPc,
          toEnqueue, received, workers, tickerPc, reported,
          zombieClusters, zombieUsers, hist>>

\* ------------------------------------------------------------- pure helpers
\* Some enumeration of a set as a sequence (the order of a Go map range).
RECURSIVE SetToSeq(_)
SetToSeq(S) ==
    IF S = {} THEN <<>>
    ELSE LET x == CHOOSE y \in S : TRUE IN <<x>> \o SetToSeq(S \ {x})

\* Contains that starts its scan at the second element
RECURSIVE ContainsFromSecond(_, _)
ContainsFromSecond(a, x) ==
    IF a = <<>> \/ Tail(a) = <<>> THEN FALSE
    ELSE IF x = Head(Tail(a)) THEN TRUE
    ELSE ContainsFromSecond(Tail(a), x)

\* Contains util, whether x is in the slice a
RECURSIVE Contains(_, _)
Contains(a, x) ==
    IF a = <<>> THEN FALSE
    ELSE IF x = Head(a) THEN TRUE
    ELSE Contains(Tail(a), x)

\* an empty Go map
EmptyMap == [x \in {} |-> 0]

\* clientcmdapi.NewConfig(): three empty maps
NewConfig ==
    [Contexts |-> EmptyMap, AuthInfos |-> EmptyMap, Clusters |-> EmptyMap,
     Preferences |-> <<"preferences", "new">>, Extensions |-> <<"extensions", "none">>]

\* the preferences and the extensions a kubeconfig file holds, as opaque values
FilePreferences == <<"preferences", "file">>
FileExtensions == <<"extensions", "file">>

\* init that carries over the preferences only
CarryOverPreferencesOnly(config, rawconfig) ==
    [config EXCEPT !.Preferences = rawconfig.Preferences]

\* init: o.result.Preferences = o.raw.Preferences and the three assignments
\* after it, for one of the two configs
CarryOver(config, rawconfig) ==
    [config EXCEPT !.Preferences = rawconfig.Preferences,
                   !.Extensions = rawconfig.Extensions]

\* o.result and o.removed before init allocates them
NilConfig == [nil |-> TRUE]

\* m[k] = v on a Go map
MapSet(m, k, v) == [x \in (DOMAIN m) \cup {k} |-> IF x = k THEN v ELSE m[x]]

\* every key of src written into dst
RECURSIVE MapMergeSeq(_, _, _)
MapMergeSeq(dst, src, keys) ==
    IF keys = <<>> THEN dst
    ELSE MapMergeSeq(MapSet(dst, Head(keys), src[Head(keys)]), src, Tail(keys))

\* a copy loop that ends after its first iteration
MapMergeFirstOnly(dst, src) ==
    IF DOMAIN src = {} THEN dst
    ELSE LET k == Head(SetToSeq(DOMAIN src)) IN MapSet(dst, k, src[k])

MapMerge(dst, src) == MapMergeSeq(dst, src, SetToSeq(DOMAIN src))

\* a goroutine of the bag b moves from local state old to local state new
Step(b, old, new) == (b (-) SetToBag({old})) (+) SetToBag({new})

\* a worker blocked on, or about to execute, the receive of `range contexts`
Idle == [pc |-> "recv", ctx |-> 0, ok |-> FALSE]

\* numWorkers of Run
NumWorkers(rawconfig) ==
    LET n == Cardinality(DOMAIN rawconfig.Contexts)
    IN IF n > MaxWorkers THEN MaxWorkers ELSE n

\* the go statements executed by `for w := 0; w <= numWorkers; w++`
RECURSIVE SpawnLoop(_, _, _)
SpawnLoop(w, numWorkers, started) ==
    IF w <= numWorkers THEN SpawnLoop(w + 1, numWorkers, started + 1)
    ELSE started

\* NewRestClientForContext without its lookup of the cluster
DanglingAuthInfoOnly(rawconfig, ctxname) ==
    LET context == rawconfig.Contexts[ctxname]
    IN context.AuthInfo \notin DOMAIN rawconfig.AuthInfos

\* the error of NewRestClientForContext caused by a missing reference
DanglingReference(rawconfig, ctxname) ==
    LET context == rawconfig.Contexts[ctxname]
    IN \/ context.AuthInfo \notin DOMAIN rawconfig.AuthInfos
       \/ context.Cluster \notin DOMAIN rawconfig.Clusters

\* keepContext without its copy of the user
keepContextWithoutAuthInfo(res, rawconfig, ctxname) ==
    LET context == rawconfig.Contexts[ctxname]
        r1 == [res EXCEPT !.Contexts = MapSet(@, ctxname, context)]
    IN IF context.Cluster \in DOMAIN rawconfig.Clusters
       THEN [r1 EXCEPT !.Clusters =
                 MapSet(@, context.Cluster, rawconfig.Clusters[context.Cluster])]
       ELSE r1

\* keepContext that replaces the Clusters map instead of adding a key to it
keepContextReplacesClusters(res, rawconfig, ctxname) ==
    LET context == rawconfig.Contexts[ctxname]
        r1 == [res EXCEPT !.Contexts = MapSet(@, ctxname, context)]
        r2 == IF context.AuthInfo \in DOMAIN rawconfig.AuthInfos
              THEN [r1 EXCEPT !.AuthInfos =
                        MapSet(@, context.AuthInfo, rawconfig.AuthInfos[context.AuthInfo])]
              ELSE r1
    IN IF context.Cluster \in DOMAIN rawconfig.Clusters
       THEN [r2 EXCEPT !.Clusters =
                 MapSet(EmptyMap, context.Cluster, rawconfig.Clusters[context.Cluster])]
       ELSE r2

\* keepContext without its two ok tests: a reference the kubeconfig does
\* not have gets a nil entry
keepContextCopiesMissing(res, rawconfig, ctxname) ==
    LET context == rawconfig.Contexts[ctxname]
        auth == IF context.AuthInfo \in DOMAIN rawconfig.AuthInfos
                THEN rawconfig.AuthInfos[context.AuthInfo] ELSE <<"nil">>
        cluster == IF context.Cluster \in DOMAIN rawconfig.Clusters
                   THEN rawconfig.Clusters[context.Cluster] ELSE <<"nil">>
    IN [res EXCEPT !.Contexts = MapSet(@, ctxname, context),
                   !.AuthInfos = MapSet(@, context.AuthInfo, auth),
                   !.Clusters = MapSet(@, context.Cluster, cluster)]

keepContext(res, rawconfig, ctxname) ==
    LET context == rawconfig.Contexts[ctxname]
        r1 == [res EXCEPT !.Contexts = MapSet(@, ctxname, context)]
        r2 == IF context.AuthInfo \in DOMAIN rawconfig.AuthInfos
              THEN [r1 EXCEPT !.AuthInfos =
                        MapSet(@, context.AuthInfo, rawconfig.AuthInfos[context.AuthInfo])]
              ELSE r1
    IN IF context.Cluster \in DOMAIN rawconfig.Clusters
       THEN [r2 EXCEPT !.Clusters =
                 MapSet(@, context.Cluster, rawconfig.Clusters[context.Cluster])]
       ELSE r2

\* cleanupContext without its copy of the cluster
cleanupContextWithoutCluster(rem, rawconfig, ctxname) ==
    LET context == rawconfig.Contexts[ctxname]
        r1 == [rem EXCEPT !.Contexts = MapSet(@, ctxname, context)]
    IN IF context.AuthInfo \in DOMAIN rawconfig.AuthInfos
       THEN [r1 EXCEPT !.AuthInfos =
                 MapSet(@, context.AuthInfo, rawconfig.AuthInfos[context.AuthInfo])]
       ELSE r1

\* cleanupContext without its first assignment
cleanupContextForgetsContext(rem, rawconfig, ctxname) ==
    LET context == rawconfig.Contexts[ctxname]
        r2 == IF context.AuthInfo \in DOMAIN rawconfig.AuthInfos
              THEN [rem EXCEPT !.AuthInfos =
                        MapSet(@, context.AuthInfo, rawconfig.AuthInfos[context.AuthInfo])]
              ELSE rem
    IN IF context.Cluster \in DOMAIN rawconfig.Clusters
       THEN [r2 EXCEPT !.Clusters =
                 MapSet(@, context.Cluster, rawconfig.Clusters[context.Cluster])]
       ELSE r2

cleanupContext(rem, rawconfig, ctxname) ==
    LET context == rawconfig.Contexts[ctxname]
        r1 == [rem EXCEPT !.Contexts = MapSet(@, ctxname, context)]
        r2 == IF context.AuthInfo \in DOMAIN rawconfig.AuthInfos
              THEN [r1 EXCEPT !.AuthInfos =
                        MapSet(@, context.AuthInfo, rawconfig.AuthInfos[context.AuthInfo])]
              ELSE r1
    IN IF context.Cluster \in DOMAIN rawconfig.Clusters
       THEN [r2 EXCEPT !.Clusters =
                 MapSet(@, context.Cluster, rawconfig.Clusters[context.Cluster])]
       ELSE r2

\* the slice a loop of the form `for _, context := range rawconfig.Contexts`
\* appends field f of every context to
RECURSIVE InUse(_, _, _)
InUse(rawconfig, keys, f) ==
    IF keys = <<>> THEN <<>>
    ELSE <<rawconfig.Contexts[Head(keys)][f]>> \o InUse(rawconfig, Tail(keys), f)

\* the last loop of the detectors without its test of Contains
RECURSIVE ZombieLoopTakesAll(_, _, _, _)
ZombieLoopTakesAll(all, inUse, entries, zombies) ==
    IF all = <<>> THEN zombies
    ELSE ZombieLoopTakesAll(Tail(all), inUse, entries,
                            MapSet(zombies, Head(all), entries[Head(all)]))

\* the zombies map built by the last loop of the two detectors
RECURSIVE ZombieLoop(_, _, _, _)
ZombieLoop(all, inUse, entries, zombies) ==
    IF all = <<>> THEN zombies
    ELSE ZombieLoop(Tail(all), inUse, entries,
                    IF ~Contains(inUse, Head(all))
                    THEN MapSet(zombies, Head(all), entries[Head(all)])
                    ELSE zombies)

\* clustersNotSpecifiedByAContext collecting context.AuthInfo
clustersNotSpecifiedReadsAuthInfo(rawconfig) ==
    LET clustersInUse == InUse(rawconfig, SetToSeq(DOMAIN rawconfig.Contexts), "AuthInfo")
        allClusters == SetToSeq(DOMAIN rawconfig.Clusters)
    IN ZombieLoop(allClusters, clustersInUse, rawconfig.Clusters, EmptyMap)

\* clustersNotSpecifiedByAContext returning early, with no zombies, for a
\* kubeconfig without contexts
clustersNotSpecifiedEmptyWithoutContexts(rawconfig) ==
    LET clustersInUse == InUse(rawconfig, SetToSeq(DOMAIN rawconfig.Contexts), "Cluster")
        allClusters == SetToSeq(DOMAIN rawconfig.Clusters)
    IN IF DOMAIN rawconfig.Contexts = {} THEN EmptyMap
       ELSE ZombieLoop(allClusters, clustersInUse, rawconfig.Clusters, EmptyMap)

clustersNotSpecifiedByAContext(rawconfig) ==
    LET clustersInUse == InUse(rawconfig, SetToSeq(DOMAIN rawconfig.Contexts), "Cluster")
        allClusters == SetToSeq(DOMAIN rawconfig.Clusters)
    IN ZombieLoop(allClusters, clustersInUse, rawconfig.Clusters, EmptyMap)

\* usersNotSpecifiedByAContext reading the contexts of o.result
usersNotSpecifiedReadsResult(rawconfig) ==
    LET authInfosInUse == InUse(result, SetToSeq(DOMAIN result.Contexts), "AuthInfo")
        allAuthInfos == SetToSeq(DOMAIN rawconfig.AuthInfos)
    IN ZombieLoop(allAuthInfos, authInfosInUse, rawconfig.AuthInfos, EmptyMap)

usersNotSpecifiedByAContext(rawconfig) ==
    LET authInfosInUse == InUse(rawconfig, SetToSeq(DOMAIN rawconfig.Contexts), "AuthInfo")
        allAuthInfos == SetToSeq(DOMAIN rawconfig.AuthInfos)
    IN ZombieLoop(allAuthInfos, authInfosInUse, rawconfig.AuthInfos, EmptyMap)

\* ---------------------------------------------------------------- initial
NoHist == [enq |-> 0, deq |-> 0, client |-> "none", probes |-> 0, sent |-> 0,
           outcome |-> "none"]

InitRun ==
    /\ result = NilConfig
    /\ removed = NilConfig
    /\ cmdErr = "none"
    /\ out = <<>>
    /\ shortened = {}
    /\ saved = <<>>
    /\ contexts = <<>>
    /\ contextsClosed = FALSE
    /\ resultsClosed = FALSE
    /\ completed = 0
    /\ mainPc = "init"
    /\ toEnqueue = DOMAIN raw.Contexts
    /\ received = 0
    /\ workers = EmptyBag
    /\ tickerPc = "off"
    /\ reported = -1
    /\ zombieClusters = EmptyMap
    /\ zombieUsers = EmptyMap
    /\ hist = [c \in DOMAIN raw.Contexts |-> NoHist]

\* filepath.Join(home, ".kube", "config")
JoinKubeConfig(home) == home \o "/.kube/config"

\* a path resolution in which the environment and the home directory
\* overwrite the value of --kubeconfig
ResolveKubeconfigPathFlagLast(path, home, envConfig) ==
    IF envConfig # "" THEN envConfig
    ELSE IF home # "" THEN JoinKubeConfig(home)
    ELSE path

\* init: the value o.KubeconfigPath has after the precedence block, path
\* being the value of --kubeconfig
ResolveKubeconfigPath(path, home, envConfig) ==
    IF path # "" THEN path
    ELSE LET fromHome == IF home # "" THEN JoinKubeConfig(home) ELSE path
         IN  IF envConfig # "" THEN envConfig ELSE fromHome

\* the values --kubeconfig, $KUBECONFIG and the home directory are drawn from
FlagPaths == {"", "flag.yaml"}
EnvPaths == {"", "env.yaml"}
HomeDirs == {"", "/home/u"}

\* no --kubeconfig, no $KUBECONFIG, a home directory
DefaultPaths ==
    /\ KubeconfigPath = ""
    /\ envKubeconfig = ""
    /\ homeDir = "/home/u"

\* a kubeconfig of at most MaxContexts contexts with free references; names
\* being arbitrary, the first context's cluster and user are called 1
InitConfig ==
    /\ \E k \in 0..MaxContexts :
       \E ctxs \in [1..k -> [Cluster : ClusterNames, AuthInfo : UserNames]] :
       \E cl \in SUBSET ClusterNames :
       \E us \in SUBSET UserNames :
          /\ k > 0 => ctxs[1] = [Cluster |-> 1, AuthInfo |-> 1]
          /\ raw = [Contexts |-> ctxs,
                    Clusters |-> [c \in cl |-> <<"cluster", c>>],
                    AuthInfos |-> [u \in us |-> <<"user", u>>],
                    Preferences |-> FilePreferences,
                    Extensions |-> FileExtensions]
    /\ \E ig \in SUBSET (DOMAIN raw.Contexts) : IgnoreContexts = SetToSeq(ig)
    /\ CleanupClusters \in BOOLEAN
    /\ CleanupUsers \in BOOLEAN
    /\ PrintRemoved \in BOOLEAN
    /\ PrintRaw = FALSE
    /\ DefaultPaths

\* a kubeconfig of more contexts, all on one cluster and one user
InitQueue ==
    /\ \E k \in (MaxContexts + 1)..QueueContexts :
          raw = [Contexts |-> [c \in 1..k |-> [Cluster |-> 1, AuthInfo |-> 1]],
                 Clusters |-> [c \in {1} |-> <<"cluster", c>>],
                 AuthInfos |-> [u \in {1} |-> <<"user", u>>],
                 Preferences |-> FilePreferences,
                 Extensions |-> FileExtensions]
    /\ IgnoreContexts = <<>>
    /\ CleanupClusters = FALSE
    /\ CleanupUsers = FALSE
    /\ PrintRemoved = FALSE
    /\ PrintRaw = FALSE
    /\ DefaultPaths

\* a kubeconfig in which context c is on cluster c with user c, and nothing
\* else; the first context may be on the ignore list
InitScenario ==
    /\ raw = [Contexts |-> [c \in 1..ScenarioContexts |-> [Cluster |-> c, AuthInfo |-> c]],
              Clusters |-> [c \in 1..ScenarioContexts |-> <<"cluster", c>>],
              AuthInfos |-> [u \in 1..ScenarioContexts |-> <<"user", u>>],
              Preferences |-> FilePreferences,
              Extensions |-> FileExtensions]
    /\ IgnoreContexts \in {<<>>, <<1>>}
    /\ CleanupClusters = FALSE
    /\ CleanupUsers = FALSE
    /\ PrintRemoved = FALSE
    /\ PrintRaw = FALSE
    /\ DefaultPaths

\* a kubeconfig of one context, with every combination of --kubeconfig,
\* $KUBECONFIG, home directory and --raw; the ignore file is in the home
\* directory, so that without one o.IgnoreContexts stays empty
InitPaths ==
    /\ raw = [Contexts |-> [c \in {1} |-> [Cluster |-> 1, AuthInfo |-> 1]],
              Clusters |-> [c \in {1} |-> <<"cluster", c>>],
              AuthInfos |-> [u \in {1} |-> <<"user", u>>],
              Preferences |-> FilePreferences,
              Extensions |-> FileExtensions]
    /\ KubeconfigPath \in FlagPaths
    /\ envKubeconfig \in EnvPaths
    /\ homeDir \in HomeDirs
    /\ IgnoreContexts \in (IF homeDir = "" THEN {<<>>} ELSE {<<>>, <<1>>})
    /\ CleanupClusters = FALSE
    /\ CleanupUsers = FALSE
    /\ PrintRemoved \in BOOLEAN
    /\ PrintRaw \in BOOLEAN

\* the command of part_002 has no --save
Init ==
    /\ InitConfig \/ InitQueue \/ InitScenario \/ InitPaths
    /\ Save = FALSE
    /\ InitRun

\* ------------------------------------------------------------------- Run
Total == Cardinality(DOMAIN raw.Contexts)

\* the errors init can return: unexpected arguments, no printer, an ignore
\* file that cannot be read or parsed, a kubeconfig that cannot be loaded
InitFailures == {"args", "printer", "readIgnore", "parseIgnore", "loadConfig"}

\* init: the ways init can return for a --kubeconfig value, a home directory
\* and a $KUBECONFIG: the ignore file is read only when the home directory
\* is known, and LoadFromFile has no file to load when no path was resolved
InitFailuresAt(path, home, envConfig) ==
    {"args", "printer", "loadConfig"}
    \cup (IF home # "" THEN {"readIgnore", "parseIgnore"} ELSE {})
    \cup (IF ResolveKubeconfigPath(path, home, envConfig) # "" THEN {"none"} ELSE {})

\* a RunE that calls Run whatever init returns
InitCommandRunsAnyway ==
    /\ mainPc = "init"
    /\ \E failure \in InitFailures \cup {"none"} :
          /\ result' = NewConfig
          /\ removed' = NewConfig
          /\ mainPc' = "spawn"
          /\ cmdErr' = failure
    /\ UNCHANGED <<raw, IgnoreContexts, CleanupClusters, CleanupUsers,
                   PrintRemoved, PrintRaw, KubeconfigPath, environment,
                   shortened, saveVars, out, contexts, contextsClosed, resultsClosed,
                   completed, toEnqueue, received, workers, tickerPc, reported,
                   zombieClusters, zombieUsers, hist>>

\* RunE: opts.init(c, args); an error of init is returned and Run is not
\* called, otherwise o.result and o.removed are allocated and Run starts
InitCommand ==
    /\ mainPc = "init"
    /\ \E failure \in InitFailuresAt(KubeconfigPath, homeDir, envKubeconfig) :
          /\ KubeconfigPath' =
                IF failure \in {"args", "printer"} THEN KubeconfigPath
                ELSE ResolveKubeconfigPath(KubeconfigPath, homeDir, envKubeconfig)
          /\ IF failure = "none"
             THEN /\ result' = CarryOver(NewConfig, raw)
                  /\ removed' = CarryOver(NewConfig, raw)
                  /\ mainPc' = "spawn"
                  /\ UNCHANGED cmdErr
             ELSE /\ cmdErr' = failure
                  /\ mainPc' = "failed"
                  /\ UNCHANGED <<result, removed>>
    /\ UNCHANGED <<raw, IgnoreContexts, CleanupClusters, CleanupUsers,
                   PrintRemoved, PrintRaw, environment,
                   shortened, saveVars, out, contexts, contextsClosed, resultsClosed,
                   completed, toEnqueue, received, workers, tickerPc, reported,
                   zombieClusters, zombieUsers, hist>>

\* Run: the loop of go statements that starts the workers
SpawnWorkers ==
    /\ mainPc = "spawn"
    /\ workers' = [w \in {Idle} |-> SpawnLoop(0, NumWorkers(raw), 0)]
    /\ mainPc' = "enqueue"
    /\ UNCHANGED <<raw, IgnoreContexts, CleanupClusters, CleanupUsers,
                   PrintRemoved, PrintRaw, KubeconfigPath, environment,
                   shortened, saveVars, cmdErr, out, result,
                   removed, contexts, contextsClosed, resultsClosed, completed,
                   toEnqueue, received, tickerPc, reported, zombieClusters,
                   zombieUsers, hist>>

\* Run: one `contexts <- ctxname` of the range over o.raw.Contexts; it blocks
\* while the buffer is full
Enqueue ==
    /\ mainPc = "enqueue"
    /\ Len(contexts) < QueueCap
    /\ \E ctxname \in toEnqueue :
          /\ contexts' = Append(contexts, ctxname)
          /\ toEnqueue' = toEnqueue \ {ctxname}
          /\ hist' = [hist EXCEPT ![ctxname].enq = @ + 1]
    /\ UNCHANGED <<raw, IgnoreContexts, CleanupClusters, CleanupUsers,
                   PrintRemoved, PrintRaw, KubeconfigPath, environment,
                   shortened, saveVars, cmdErr, out, result,
                   removed, contextsClosed, resultsClosed, completed, mainPc,
                   received, workers, tickerPc, reported, zombieClusters,
                   zombieUsers>>

\* a close of the work queue that does not wait for the range loop
CloseContextsEarly ==
    /\ mainPc = "enqueue"
    /\ contextsClosed' = TRUE
    /\ tickerPc' = "running"
    /\ mainPc' = "accumulate"
    /\ UNCHANGED <<raw, IgnoreContexts, CleanupClusters, CleanupUsers,
                   PrintRemoved, PrintRaw, KubeconfigPath, environment,
                   shortened, saveVars, cmdErr, out, result,
                   removed, contexts, resultsClosed, completed, toEnqueue,
                   received, workers, reported, zombieClusters, zombieUsers,
                   hist>>

\* Run: close(contexts), then the go statement of the progress goroutine
CloseContexts ==
    /\ mainPc = "enqueue"
    /\ toEnqueue = {}
    /\ contextsClosed' = TRUE
    /\ tickerPc' = "running"
    /\ mainPc' = "accumulate"
    /\ UNCHANGED <<raw, IgnoreContexts, CleanupClusters, CleanupUsers,
                   PrintRemoved, PrintRaw, KubeconfigPath, environment,
                   shortened, saveVars, cmdErr, out, result,
                   removed, contexts, resultsClosed, completed, toEnqueue,
                   received, workers, reported, zombieClusters, zombieUsers,
                   hist>>

\* a worker that ends the command when a client cannot be built
WorkerReceiveFatalOnError(w) ==
    /\ w.pc = "recv"
    /\ contexts # <<>>
    /\ LET ctx == Head(contexts) IN
       /\ contexts' = Tail(contexts)
       /\ IF Contains(IgnoreContexts, ctx)
          THEN /\ workers' = Step(workers, w, [pc |-> "send", ctx |-> ctx, ok |-> TRUE])
               /\ hist' = [hist EXCEPT ![ctx].deq = @ + 1, ![ctx].outcome = "success"]
               /\ UNCHANGED <<mainPc, cmdErr>>
          ELSE \E buildErr \in BOOLEAN :
               IF DanglingReference(raw, ctx) \/ buildErr
               THEN /\ workers' = Step(workers, w, [pc |-> "exit", ctx |-> ctx, ok |-> FALSE])
                    /\ hist' = [hist EXCEPT ![ctx].deq = @ + 1, ![ctx].client = "error",
                                            ![ctx].outcome = "failure"]
                    /\ mainPc' = "done"
                    /\ cmdErr' = "client"
               ELSE /\ workers' = Step(workers, w, [pc |-> "probe", ctx |-> ctx, ok |-> FALSE])
                    /\ hist' = [hist EXCEPT ![ctx].deq = @ + 1, ![ctx].client = "built"]
                    /\ UNCHANGED <<mainPc, cmdErr>>
    /\ UNCHANGED <<raw, IgnoreContexts, CleanupClusters, CleanupUsers,
                   PrintRemoved, PrintRaw, KubeconfigPath, environment,
                   shortened, saveVars, out, result,
                   removed, contextsClosed, resultsClosed, completed,
                   toEnqueue, received, tickerPc, reported, zombieClusters,
                   zombieUsers>>

\* testConnection: `for ctx := range contexts` receives a name; the worker
\* then either has its outcome (ignored, or no client could be built) or
\* goes on to call the server
WorkerReceive(w) ==
    /\ w.pc = "recv"
    /\ contexts # <<>>
    /\ LET ctx == Head(contexts) IN
       /\ contexts' = Tail(contexts)
       /\ IF Contains(IgnoreContexts, ctx)
          THEN /\ workers' = Step(workers, w, [pc |-> "send", ctx |-> ctx, ok |-> TRUE])
               /\ hist' = [hist EXCEPT ![ctx].deq = @ + 1, ![ctx].outcome = "success"]
          ELSE \E buildErr \in BOOLEAN :
               IF DanglingReference(raw, ctx) \/ buildErr
               THEN /\ workers' = Step(workers, w, [pc |-> "send", ctx |-> ctx, ok |-> FALSE])
                    /\ hist' = [hist EXCEPT ![ctx].deq = @ + 1, ![ctx].client = "error",
                                            ![ctx].outcome = "failure"]
               ELSE /\ workers' = Step(workers, w, [pc |-> "probe", ctx |-> ctx, ok |-> FALSE])
                    /\ hist' = [hist EXCEPT ![ctx].deq = @ + 1, ![ctx].client = "built"]
    /\ UNCHANGED <<raw, IgnoreContexts, CleanupClusters, CleanupUsers,
                   PrintRemoved, PrintRaw, KubeconfigPath, environment,
                   shortened, saveVars, cmdErr, out, result,
                   removed, contextsClosed, resultsClosed, completed, mainPc,
                   toEnqueue, received, tickerPc, reported, zombieClusters,
                   zombieUsers>>

\* a probe that is made a second time when the first one fails
WorkerProbeRetriesOnce(w) ==
    /\ w.pc = "probe"
    /\ \E reachable \in BOOLEAN :
          /\ workers' = IF ~reachable /\ hist[w.ctx].probes = 0
                        THEN workers
                        ELSE Step(workers, w, [w EXCEPT !.pc = "send", !.ok = reachable])
          /\ hist' = [hist EXCEPT ![w.ctx].probes = @ + 1,
                                  ![w.ctx].outcome =
                                      IF reachable THEN "success" ELSE "failure"]
    /\ UNCHANGED <<raw, IgnoreContexts, CleanupClusters, CleanupUsers,
                   PrintRemoved, PrintRaw, KubeconfigPath, environment,
                   shortened, saveVars, cmdErr, out, result,
                   removed, contexts, contextsClosed, resultsClosed, completed,
                   mainPc, toEnqueue, received, tickerPc, reported,
                   zombieClusters, zombieUsers>>

\* a worker that puts a reachable context into o.result itself
WorkerProbeKeepsReachable(w) ==
    /\ w.pc = "probe"
    /\ \E reachable \in BOOLEAN :
          /\ workers' = Step(workers, w, [w EXCEPT !.pc = "send", !.ok = reachable])
          /\ hist' = [hist EXCEPT ![w.ctx].probes = @ + 1,
                                  ![w.ctx].outcome =
                                      IF reachable THEN "success" ELSE "failure"]
          /\ result' = IF reachable THEN keepContext(result, raw, w.ctx) ELSE result
    /\ UNCHANGED <<raw, IgnoreContexts, CleanupClusters, CleanupUsers,
                   PrintRemoved, PrintRaw, KubeconfigPath, environment,
                   shortened, saveVars, cmdErr, out,
                   removed, contexts, contextsClosed, resultsClosed, completed,
                   mainPc, toEnqueue, received, tickerPc, reported,
                   zombieClusters, zombieUsers>>

\* testConnection: clientset.Discovery().ServerVersion() returns
WorkerProbe(w) ==
    /\ w.pc = "probe"
    /\ \E reachable \in BOOLEAN :
          /\ workers' = Step(workers, w, [w EXCEPT !.pc = "send", !.ok = reachable])
          /\ hist' = [hist EXCEPT ![w.ctx].probes = @ + 1,
                                  ![w.ctx].outcome =
                                      IF reachable THEN "success" ELSE "failure"]
    /\ UNCHANGED <<raw, IgnoreContexts, CleanupClusters, CleanupUsers,
                   PrintRemoved, PrintRaw, KubeconfigPath, environment,
                   shortened, saveVars, cmdErr, out, result,
                   removed, contexts, contextsClosed, resultsClosed, completed,
                   mainPc, toEnqueue, received, tickerPc, reported,
                   zombieClusters, zombieUsers>>

\* a receive from success after which the worker sends its name again
ReceiveSuccessResend(w) ==
    /\ mainPc = "accumulate"
    /\ ~resultsClosed
    /\ received < Total
    /\ w.pc = "send"
    /\ w.ok
    /\ result' = keepContext(result, raw, w.ctx)
    /\ received' = received + 1
    /\ hist' = [hist EXCEPT ![w.ctx].sent = @ + 1]
    /\ UNCHANGED <<raw, IgnoreContexts, CleanupClusters, CleanupUsers,
                   PrintRemoved, PrintRaw, KubeconfigPath, environment,
                   shortened, saveVars, cmdErr, out, removed,
                   contexts, contextsClosed, resultsClosed, completed, mainPc,
                   toEnqueue, workers, tickerPc, reported, zombieClusters,
                   zombieUsers>>

\* a receive from success that binds the kept cluster's key of o.raw anew
ReceiveSuccessRebindsRaw(w) ==
    /\ mainPc = "accumulate"
    /\ ~resultsClosed
    /\ received < Total
    /\ w.pc = "send"
    /\ w.ok
    /\ result' = keepContext(result, raw, w.ctx)
    /\ received' = received + 1
    /\ workers' = Step(workers, w, [w EXCEPT !.pc = "add"])
    /\ hist' = [hist EXCEPT ![w.ctx].sent = @ + 1]
    /\ raw' = IF raw.Contexts[w.ctx].Cluster \in DOMAIN raw.Clusters
              THEN [raw EXCEPT !.Clusters[raw.Contexts[w.ctx].Cluster] = <<"kept", @>>]
              ELSE raw
    /\ UNCHANGED <<IgnoreContexts, CleanupClusters, CleanupUsers,
                   PrintRemoved, PrintRaw, KubeconfigPath, environment,
                   shortened, saveVars, cmdErr, out, removed,
                   contexts, contextsClosed, resultsClosed, completed, mainPc,
                   toEnqueue, tickerPc, reported, zombieClusters, zombieUsers>>

\* Run: `case s := <-success: o.keepContext(s)` meeting the `success <- ctx`
\* of worker w on the unbuffered channel
ReceiveSuccess(w) ==
    /\ mainPc = "accumulate"
    /\ ~resultsClosed
    /\ received < Total
    /\ w.pc = "send"
    /\ w.ok
    /\ result' = keepContext(result, raw, w.ctx)
    /\ received' = received + 1
    /\ workers' = Step(workers, w, [w EXCEPT !.pc = "add"])
    /\ hist' = [hist EXCEPT ![w.ctx].sent = @ + 1]
    /\ UNCHANGED <<raw, IgnoreContexts, CleanupClusters, CleanupUsers,
                   PrintRemoved, PrintRaw, KubeconfigPath, environment,
                   shortened, saveVars, cmdErr, out, removed,
                   contexts, contextsClosed, resultsClosed, completed, mainPc,
                   toEnqueue, tickerPc, reported, zombieClusters, zombieUsers>>

\* a receive from failure that calls keepContext
ReceiveFailureKeeps(w) ==
    /\ mainPc = "accumulate"
    /\ ~resultsClosed
    /\ received < Total
    /\ w.pc = "send"
    /\ ~w.ok
    /\ result' = keepContext(result, raw, w.ctx)
    /\ received' = received + 1
    /\ workers' = Step(workers, w, [w EXCEPT !.pc = "add"])
    /\ hist' = [hist EXCEPT ![w.ctx].sent = @ + 1]
    /\ UNCHANGED <<raw, IgnoreContexts, CleanupClusters, CleanupUsers,
                   PrintRemoved, PrintRaw, KubeconfigPath, environment,
                   shortened, saveVars, cmdErr, out, removed,
                   contexts, contextsClosed, resultsClosed, completed, mainPc,
                   toEnqueue, tickerPc, reported, zombieClusters, zombieUsers>>

\* Run: `case f := <-failure: o.cleanupContext(f)` meeting the
\* `failure <- ctx` of worker w
ReceiveFailure(w) ==
    /\ mainPc = "accumulate"
    /\ ~resultsClosed
    /\ received < Total
    /\ w.pc = "send"
    /\ ~w.ok
    /\ removed' = cleanupContext(removed, raw, w.ctx)
    /\ received' = received + 1
    /\ workers' = Step(workers, w, [w EXCEPT !.pc = "add"])
    /\ hist' = [hist EXCEPT ![w.ctx].sent = @ + 1]
    /\ UNCHANGED <<raw, IgnoreContexts, CleanupClusters, CleanupUsers,
                   PrintRemoved, PrintRaw, KubeconfigPath, environment,
                   shortened, saveVars, cmdErr, out, result,
                   contexts, contextsClosed, resultsClosed, completed, mainPc,
                   toEnqueue, tickerPc, reported, zombieClusters, zombieUsers>>

\* a worker that does not count the contexts of the ignore list
WorkerAddSkipsIgnored(w) ==
    /\ w.pc = "add"
    /\ completed' = IF Contains(IgnoreContexts, w.ctx) THEN completed ELSE completed + 1
    /\ workers' = Step(workers, w, Idle)
    /\ UNCHANGED <<raw, IgnoreContexts, CleanupClusters, CleanupUsers,
                   PrintRemoved, PrintRaw, KubeconfigPath, environment,
                   shortened, saveVars, cmdErr, out, result,
                   removed, contexts, contextsClosed, resultsClosed, mainPc,
                   toEnqueue, received, tickerPc, reported, zombieClusters,
                   zombieUsers, hist>>

\* a worker that adds 2 to the counter
WorkerAddCountsTwice(w) ==
    /\ w.pc = "add"
    /\ completed' = completed + 2
    /\ workers' = Step(workers, w, Idle)
    /\ UNCHANGED <<raw, IgnoreContexts, CleanupClusters, CleanupUsers,
                   PrintRemoved, PrintRaw, KubeconfigPath, environment,
                   shortened, saveVars, cmdErr, out, result,
                   removed, contexts, contextsClosed, resultsClosed, mainPc,
                   toEnqueue, received, tickerPc, reported, zombieClusters,
                   zombieUsers, hist>>

\* testConnection: atomic.AddInt32(completed, 1) after the send
WorkerAdd(w) ==
    /\ w.pc = "add"
    /\ completed' = completed + 1
    /\ workers' = Step(workers, w, Idle)
    /\ UNCHANGED <<raw, IgnoreContexts, CleanupClusters, CleanupUsers,
                   PrintRemoved, PrintRaw, KubeconfigPath, environment,
                   shortened, saveVars, cmdErr, out, result,
                   removed, contexts, contextsClosed, resultsClosed, mainPc,
                   toEnqueue, received, tickerPc, reported, zombieClusters,
                   zombieUsers, hist>>

\* testConnection: the range over the closed, drained channel ends
WorkerExit(w) ==
    /\ w.pc = "recv"
    /\ contexts = <<>>
    /\ contextsClosed
    /\ workers' = Step(workers, w, [w EXCEPT !.pc = "exit"])
    /\ UNCHANGED <<raw, IgnoreContexts, CleanupClusters, CleanupUsers,
                   PrintRemoved, PrintRaw, KubeconfigPath, environment,
                   shortened, saveVars, cmdErr, out, result,
                   removed, contexts, contextsClosed, resultsClosed, completed,
                   mainPc, toEnqueue, received, tickerPc, reported,
                   zombieClusters, zombieUsers, hist>>

\* progress goroutine: a tick whose read of completed differs from the total.
\* The read is not synchronised with the workers' atomic adds, so it may
\* return any value the counter has had.
TickerLog ==
    /\ tickerPc = "running"
    /\ \E seen \in 0..completed :
          /\ seen # Total
          /\ reported' = seen
    /\ UNCHANGED <<raw, IgnoreContexts, CleanupClusters, CleanupUsers,
                   PrintRemoved, PrintRaw, KubeconfigPath, environment,
                   shortened, saveVars, cmdErr, out, result,
                   removed, contexts, contextsClosed, resultsClosed, completed,
                   mainPc, toEnqueue, received, workers, tickerPc,
                   zombieClusters, zombieUsers, hist>>

\* a tick that closes the channels one completed connection early
TickerCloseOffByOne ==
    /\ tickerPc = "running"
    /\ completed + 1 >= Total
    /\ reported' = completed
    /\ resultsClosed' = TRUE
    /\ tickerPc' = "exited"
    /\ UNCHANGED <<raw, IgnoreContexts, CleanupClusters, CleanupUsers,
                   PrintRemoved, PrintRaw, KubeconfigPath, environment,
                   shortened, saveVars, cmdErr, out, result,
                   removed, contexts, contextsClosed, completed, mainPc,
                   toEnqueue, received, workers, zombieClusters, zombieUsers,
                   hist>>

\* a tick that closes the channels whatever it reads
TickerCloseEarly ==
    /\ tickerPc = "running"
    /\ reported' = completed
    /\ resultsClosed' = TRUE
    /\ tickerPc' = "exited"
    /\ UNCHANGED <<raw, IgnoreContexts, CleanupClusters, CleanupUsers,
                   PrintRemoved, PrintRaw, KubeconfigPath, environment,
                   shortened, saveVars, cmdErr, out, result,
                   removed, contexts, contextsClosed, completed, mainPc,
                   toEnqueue, received, workers, zombieClusters, zombieUsers,
                   hist>>

\* progress goroutine: a tick that reads completed == len(o.raw.Contexts)
TickerClose ==
    /\ tickerPc = "running"
    /\ completed = Total
    /\ reported' = completed
    /\ resultsClosed' = TRUE
    /\ tickerPc' = "exited"
    /\ UNCHANGED <<raw, IgnoreContexts, CleanupClusters, CleanupUsers,
                   PrintRemoved, PrintRaw, KubeconfigPath, environment,
                   shortened, saveVars, cmdErr, out, result,
                   removed, contexts, contextsClosed, completed, mainPc,
                   toEnqueue, received, workers, zombieClusters, zombieUsers,
                   hist>>

\* a zombie phase that copies the zombies into both configs
ZombiePhaseBothOutputs ==
    /\ mainPc = "accumulate"
    /\ received = Total
    /\ LET zc == clustersNotSpecifiedByAContext(raw)
           zu == usersNotSpecifiedByAContext(raw)
       IN /\ zombieClusters' = zc
          /\ zombieUsers' = zu
          /\ result' = [result EXCEPT !.Clusters = MapMerge(@, zc),
                                      !.AuthInfos = MapMerge(@, zu)]
          /\ removed' = [removed EXCEPT !.Clusters = MapMerge(@, zc),
                                        !.AuthInfos = MapMerge(@, zu)]
    /\ mainPc' = "output"
    /\ UNCHANGED <<raw, IgnoreContexts, CleanupClusters, CleanupUsers,
                   PrintRemoved, PrintRaw, KubeconfigPath, environment,
                   shortened, saveVars, cmdErr, out, contexts,
                   contextsClosed, resultsClosed, completed, toEnqueue,
                   received, workers, tickerPc, reported, hist>>

\* a zombie phase whose second test reads o.CleanupClusters again
ZombiePhaseOneFlag ==
    /\ mainPc = "accumulate"
    /\ received = Total
    /\ LET zc == clustersNotSpecifiedByAContext(raw)
           zu == usersNotSpecifiedByAContext(raw)
           res1 == IF ~CleanupClusters
                   THEN [result EXCEPT !.Clusters = MapMerge(@, zc)]
                   ELSE result
           rem1 == IF ~CleanupClusters
                   THEN removed
                   ELSE [removed EXCEPT !.Clusters = MapMerge(@, zc)]
       IN /\ zombieClusters' = zc
          /\ zombieUsers' = zu
          /\ result' = IF ~CleanupClusters
                       THEN [res1 EXCEPT !.AuthInfos = MapMerge(@, zu)]
                       ELSE res1
          /\ removed' = IF ~CleanupClusters
                        THEN rem1
                        ELSE [rem1 EXCEPT !.AuthInfos = MapMerge(@, zu)]
    /\ mainPc' = "output"
    /\ UNCHANGED <<raw, IgnoreContexts, CleanupClusters, CleanupUsers,
                   PrintRemoved, PrintRaw, KubeconfigPath, environment,
                   shortened, saveVars, cmdErr, out, contexts,
                   contextsClosed, resultsClosed, completed, toEnqueue,
                   received, workers, tickerPc, reported, hist>>

\* Run: after the accumulation loop, the zombie clusters and users
ZombiePhase ==
    /\ mainPc = "accumulate"
    /\ received = Total
    /\ LET zc == clustersNotSpecifiedByAContext(raw)
           zu == usersNotSpecifiedByAContext(raw)
           res1 == IF ~CleanupClusters
                   THEN [result EXCEPT !.Clusters = MapMerge(@, zc)]
                   ELSE result
           rem1 == IF ~CleanupClusters
                   THEN removed
                   ELSE [removed EXCEPT !.Clusters = MapMerge(@, zc)]
       IN /\ zombieClusters' = zc
          /\ zombieUsers' = zu
          /\ result' = IF ~CleanupUsers
                       THEN [res1 EXCEPT !.AuthInfos = MapMerge(@, zu)]
                       ELSE res1
          /\ removed' = IF ~CleanupUsers
                        THEN rem1
                        ELSE [rem1 EXCEPT !.AuthInfos = MapMerge(@, zu)]
    /\ mainPc' = "output"
    /\ UNCHANGED <<raw, IgnoreContexts, CleanupClusters, CleanupUsers,
                   PrintRemoved, PrintRaw, KubeconfigPath, environment,
                   shortened, saveVars, cmdErr, out, contexts,
                   contextsClosed, resultsClosed, completed, toEnqueue,
                   received, workers, tickerPc, reported, hist>>

\* the errors the end of Run can return: from ConvertToVersion, from printObj
PrintFailures == {"convert", "print"}

\* ShortenConfig: the cluster and user entries of a config, which it redacts
\* in place
EntriesOf(config) ==
    {config.Clusters[c] : c \in DOMAIN config.Clusters}
    \cup {config.AuthInfos[u] : u \in DOMAIN config.AuthInfos}

\* an end of Run that prints o.result whatever PrintRemoved says
PrintResultIgnoresFlag ==
    /\ mainPc = "output"
    /\ LET selected == result IN
       IF /\ DOMAIN selected.Clusters = {}
          /\ DOMAIN selected.Contexts = {}
          /\ DOMAIN selected.AuthInfos = {}
       THEN UNCHANGED <<cmdErr, out>>
       ELSE \E err \in PrintFailures \cup {"none"} :
               /\ cmdErr' = err
               /\ out' = IF err = "convert" THEN out ELSE Append(out, selected)
    /\ mainPc' = "done"
    /\ UNCHANGED <<raw, IgnoreContexts, CleanupClusters, CleanupUsers,
                   PrintRemoved, PrintRaw, KubeconfigPath, environment,
                   shortened, saveVars, result, removed, contexts, contextsClosed,
                   resultsClosed, completed, toEnqueue, received, workers,
                   tickerPc, reported, zombieClusters, zombieUsers, hist>>

\* Run: the config to print is o.removed with PrintRemoved and o.result
\* otherwise; an empty one is not printed; without --raw ShortenConfig
\* redacts the entries of the config to print
PrintResult ==
    /\ mainPc = "output"
    /\ LET selected == IF PrintRemoved THEN removed ELSE result IN
       IF /\ DOMAIN selected.Clusters = {}
          /\ DOMAIN selected.Contexts = {}
          /\ DOMAIN selected.AuthInfos = {}
       THEN UNCHANGED <<cmdErr, out, shortened>>
       ELSE /\ shortened' = IF PrintRaw THEN shortened
                            ELSE shortened \cup EntriesOf(selected)
            /\ \E err \in PrintFailures \cup {"none"} :
                  /\ cmdErr' = err
                  /\ out' = IF err = "convert" THEN out ELSE Append(out, selected)
    /\ mainPc' = "done"
    /\ UNCHANGED <<raw, IgnoreContexts, CleanupClusters, CleanupUsers,
                   PrintRemoved, PrintRaw, KubeconfigPath, environment,
                   saveVars, result, removed, contexts, contextsClosed,
                   resultsClosed, completed, toEnqueue, received, workers,
                   tickerPc, reported, zombieClusters, zombieUsers, hist>>

Next ==
    \/ InitCommand
    \/ SpawnWorkers
    \/ Enqueue
    \/ CloseContexts
    \/ \E w \in BagToSet(workers) : WorkerReceive(w)
    \/ \E w \in BagToSet(workers) : WorkerProbe(w)
    \/ \E w \in BagToSet(workers) : ReceiveSuccess(w)
    \/ \E w \in BagToSet(workers) : ReceiveFailure(w)
    \/ \E w \in BagToSet(workers) : WorkerAdd(w)
    \/ \E w \in BagToSet(workers) : WorkerExit(w)
    \/ TickerLog
    \/ TickerClose
    \/ ZombiePhase
    \/ PrintResult

Spec == Init /\ [][Next]_vars

\* ------------------------------------------- the sequential command (--save)
\* what the sequential command has no use for: it starts no goroutine
concurrentVars == <<contexts, contextsClosed, resultsClosed, completed,
                    received, workers, tickerPc, reported>>

\* a kubeconfig of at most MaxContexts contexts with free references, and
\* every combination of the flags of the sequential command
InitSequential ==
    /\ \E k \in 0..MaxContexts :
       \E ctxs \in [1..k -> [Cluster : ClusterNames, AuthInfo : UserNames]] :
       \E cl \in SUBSET ClusterNames :
       \E us \in SUBSET UserNames :
          /\ k > 0 => ctxs[1] = [Cluster |-> 1, AuthInfo |-> 1]
          /\ raw = [Contexts |-> ctxs,
                    Clusters |-> [c \in cl |-> <<"cluster", c>>],
                    AuthInfos |-> [u \in us |-> <<"user", u>>],
                    Preferences |-> FilePreferences,
                    Extensions |-> FileExtensions]
    /\ \E ig \in SUBSET (DOMAIN raw.Contexts) : IgnoreContexts = SetToSeq(ig)
    /\ CleanupClusters \in BOOLEAN
    /\ CleanupUsers \in BOOLEAN
    /\ PrintRemoved \in BOOLEAN
    /\ PrintRaw \in BOOLEAN
    /\ Save \in BOOLEAN
    /\ DefaultPaths

InitSeq == InitSequential /\ InitRun

\* Complete: the value o.KubeconfigPath has after the precedence block;
\* --kubeconfig is bound to o.KubeconfigPath, so that the GetString at its
\* end reads back what the block has just assigned
CompleteKubeconfigPath(path, home, envConfig) ==
    LET fromHome == IF home # "" THEN JoinKubeConfig(home) ELSE path
    IN  IF envConfig # "" THEN envConfig ELSE fromHome

\* Complete: the ways it can return; the printer is made after the
\* kubeconfig is loaded
CompleteFailuresAt(path, home, envConfig) ==
    {"args", "loadConfig"}
    \cup (IF home # "" THEN {"readIgnore", "parseIgnore"} ELSE {})
    \cup (IF CompleteKubeconfigPath(path, home, envConfig) # ""
          THEN {"printer", "none"} ELSE {})

\* RunE: o.Complete(c, args); an error is returned, otherwise the two
\* configs are allocated and Validate is next
Complete ==
    /\ mainPc = "init"
    /\ \E failure \in CompleteFailuresAt(KubeconfigPath, homeDir, envKubeconfig) :
          /\ KubeconfigPath' =
                IF failure = "args" THEN KubeconfigPath
                ELSE CompleteKubeconfigPath(KubeconfigPath, homeDir, envKubeconfig)
          /\ IF failure = "none"
             THEN /\ removed' = CarryOver(NewConfig, raw)
                  /\ result' = CarryOver(NewConfig, raw)
                  /\ mainPc' = "validate"
                  /\ UNCHANGED cmdErr
             ELSE /\ cmdErr' = failure
                  /\ mainPc' = "failed"
                  /\ UNCHANGED <<result, removed>>
    /\ UNCHANGED <<raw, IgnoreContexts, CleanupClusters, CleanupUsers,
                   PrintRemoved, PrintRaw, environment, shortened, saveVars,
                   out, toEnqueue, zombieClusters, zombieUsers, hist,
                   concurrentVars>>

\* a Validate that accepts every combination of flags
ValidateAcceptsAll(printRemoved, printRaw, save) == FALSE

\* Validate: the combination of flags it returns an error for
ValidateRejects(printRemoved, printRaw, save) ==
    printRemoved /\ ~printRaw /\ save

\* RunE: o.Validate(); an error is returned and Run is not called
Validate ==
    /\ mainPc = "validate"
    /\ IF ValidateRejects(PrintRemoved, PrintRaw, Save)
       THEN /\ cmdErr' = "validate"
            /\ mainPc' = "failed"
       ELSE /\ mainPc' = "loop"
            /\ UNCHANGED cmdErr
    /\ UNCHANGED <<raw, IgnoreContexts, CleanupClusters, CleanupUsers,
                   PrintRemoved, PrintRaw, KubeconfigPath, environment,
                   shortened, saveVars, out, result, removed, toEnqueue,
                   zombieClusters, zombieUsers, hist, concurrentVars>>

\* Run: the three assignments of either branch of the loop, the context, its
\* user and its cluster written into config
AssignContext(config, rawconfig, ctxname) ==
    LET context == rawconfig.Contexts[ctxname]
    IN [config EXCEPT
          !.Contexts = MapSet(@, ctxname, context),
          !.AuthInfos = MapSet(@, context.AuthInfo,
                               rawconfig.AuthInfos[context.AuthInfo]),
          !.Clusters = MapSet(@, context.Cluster,
                              rawconfig.Clusters[context.Cluster])]

\* testConnection(clientset, ignore): whether it returns an error
TestConnectionFails(ignore, reachable) == ~ignore /\ ~reachable

\* Run: one iteration of the loop over o.RawConfig.Contexts, in the order the
\* map yields; an error of RestClientFromContextInfo skips the context
RunTestContext ==
    /\ mainPc = "loop"
    /\ \E ctxname \in toEnqueue :
       \E built \in (IF DanglingReference(raw, ctxname) THEN {FALSE} ELSE BOOLEAN) :
          /\ toEnqueue' = toEnqueue \ {ctxname}
          /\ IF ~built
             THEN /\ hist' = [hist EXCEPT ![ctxname].client = "error",
                                           ![ctxname].outcome = "skipped"]
                  /\ UNCHANGED <<result, removed>>
             ELSE LET ignore == Contains(IgnoreContexts, ctxname) IN
                  \E reachable \in (IF ignore THEN {TRUE} ELSE BOOLEAN) :
                     /\ hist' = [hist EXCEPT
                                   ![ctxname].client = "built",
                                   ![ctxname].probes = IF ignore THEN @ ELSE @ + 1,
                                   ![ctxname].outcome =
                                       IF TestConnectionFails(ignore, reachable)
                                       THEN "failure" ELSE "success"]
                     /\ IF TestConnectionFails(ignore, reachable)
                        THEN /\ removed' = AssignContext(removed, raw, ctxname)
                             /\ UNCHANGED result
                        ELSE /\ result' = AssignContext(result, raw, ctxname)
                             /\ UNCHANGED removed
    /\ UNCHANGED <<raw, IgnoreContexts, CleanupClusters, CleanupUsers,
                   PrintRemoved, PrintRaw, KubeconfigPath, environment,
                   shortened, saveVars, cmdErr, out, mainPc, zombieClusters,
                   zombieUsers, concurrentVars>>

\* Run: after the loop, the clusters and users no context names go to the
\* kept config, or to the removed one with --clusters and --users
RunZombies ==
    /\ mainPc = "loop"
    /\ toEnqueue = {}
    /\ LET zc == clustersNotSpecifiedByAContext(raw)
           zu == usersNotSpecifiedByAContext(raw)
           res1 == IF ~CleanupClusters
                   THEN [result EXCEPT !.Clusters = MapMerge(@, zc)]
                   ELSE result
           rem1 == IF ~CleanupClusters
                   THEN removed
                   ELSE [removed EXCEPT !.Clusters = MapMerge(@, zc)]
       IN /\ zombieClusters' = zc
          /\ zombieUsers' = zu
          /\ result' = IF ~CleanupUsers
                       THEN [res1 EXCEPT !.AuthInfos = MapMerge(@, zu)]
                       ELSE res1
          /\ removed' = IF ~CleanupUsers
                        THEN rem1
                        ELSE [rem1 EXCEPT !.AuthInfos = MapMerge(@, zu)]
    /\ mainPc' = "save"
    /\ UNCHANGED <<raw, IgnoreContexts, CleanupClusters, CleanupUsers,
                   PrintRemoved, PrintRaw, KubeconfigPath, environment,
                   shortened, saveVars, cmdErr, out, toEnqueue, hist,
                   concurrentVars>>

\* what WriteToFile leaves in the file: the config, and which of its entries
\* ShortenConfig had redacted by then
Written(config, path) ==
    [path |-> path, config |-> config,
     redacted |-> shortened \cap EntriesOf(config)]

\* a save that writes the removed config
RunSaveWritesRemoved ==
    /\ mainPc = "save"
    /\ IF Save
       THEN /\ saved' = Append(saved, Written(removed, KubeconfigPath))
            /\ mainPc' = "print"
            /\ UNCHANGED <<Save, cmdErr>>
       ELSE /\ mainPc' = "print"
            /\ UNCHANGED <<saveVars, cmdErr>>
    /\ UNCHANGED <<raw, IgnoreContexts, CleanupClusters, CleanupUsers,
                   PrintRemoved, PrintRaw, KubeconfigPath, environment,
                   shortened, out, result, removed, toEnqueue,
                   zombieClusters, zombieUsers, hist, concurrentVars>>

\* Run: with --save, WriteToFile(*o.ResultingConfig, o.KubeconfigPath); its
\* error ends Run
RunSave ==
    /\ mainPc = "save"
    /\ IF Save
       THEN \E err \in {"none", "write"} :
               IF err = "none"
               THEN /\ saved' = Append(saved, Written(result, KubeconfigPath))
                    /\ mainPc' = "print"
                    /\ UNCHANGED <<Save, cmdErr>>
               ELSE /\ cmdErr' = err
                    /\ mainPc' = "done"
                    /\ UNCHANGED saveVars
       ELSE /\ mainPc' = "print"
            /\ UNCHANGED <<saveVars, cmdErr>>
    /\ UNCHANGED <<raw, IgnoreContexts, CleanupClusters, CleanupUsers,
                   PrintRemoved, PrintRaw, KubeconfigPath, environment,
                   shortened, out, result, removed, toEnqueue,
                   zombieClusters, zombieUsers, hist, concurrentVars>>

\* Run: the config to print is o.CleanedUpConfig with --print-removed and
\* o.ResultingConfig otherwise; without --raw ShortenConfig redacts its
\* entries; it is converted and printed
RunPrint ==
    /\ mainPc = "print"
    /\ LET selected == IF PrintRemoved THEN removed ELSE result IN
          /\ shortened' = IF PrintRaw THEN shortened
                          ELSE shortened \cup EntriesOf(selected)
          /\ \E err \in PrintFailures \cup {"none"} :
                /\ cmdErr' = err
                /\ out' = IF err = "convert" THEN out ELSE Append(out, selected)
    /\ mainPc' = "done"
    /\ UNCHANGED <<raw, IgnoreContexts, CleanupClusters, CleanupUsers,
                   PrintRemoved, PrintRaw, KubeconfigPath, environment,
                   saveVars, result, removed, toEnqueue, zombieClusters,
                   zombieUsers, hist, concurrentVars>>

NextSeq ==
    \/ Complete
    \/ Validate
    \/ RunTestContext
    \/ RunZombies
    \/ RunSave
    \/ RunPrint

SpecSeq == InitSeq /\ [][NextSeq]_vars

\* ------------------------------------------------------------ properties
Kept == IF result = NilConfig THEN {} ELSE DOMAIN result.Contexts
Removed == IF removed = NilConfig THEN {} ELSE DOMAIN removed.Contexts
AllContexts == DOMAIN raw.Contexts

\* the accumulation loop of Run has done its len(o.raw.Contexts) iterations
LoopFinished == mainPc \in {"accumulate", "output", "done"} /\ received = Total

\* Run has gone through the zombie phase
RunFinished == mainPc \in {"output", "done"}

\* init has returned without an error and Run has been called
RunStarted == mainPc \notin {"init", "failed"}

\* C1: at every state the kept and the removed contexts are disjoint subsets
\* of the contexts of the starting kubeconfig, and once the accumulation loop
\* has finished every context is in one of the two.
C1_ContextPartition ==
    /\ Kept \cap Removed = {}
    /\ Kept \subseteq AllContexts
    /\ Removed \subseteq AllContexts
    /\ LoopFinished => Kept \cup Removed = AllContexts

\* a finished loop that kept one context and removed another
C1_Witness ==
    /\ LoopFinished
    /\ Kept # {}
    /\ Removed # {}

\* the names of the ignore list
Ignored == {IgnoreContexts[i] : i \in DOMAIN IgnoreContexts}

\* a context that names a cluster or a user the kubeconfig does not have
Dangling(c) ==
    \/ raw.Contexts[c].Cluster \notin DOMAIN raw.Clusters
    \/ raw.Contexts[c].AuthInfo \notin DOMAIN raw.AuthInfos

\* the workers that hold a name they have received and not yet sent on
Holding == {w \in BagToSet(workers) : w.pc \in {"probe", "send"}}

\* how many such workers there are
InFlight == BagCardinality([w \in Holding |-> workers[w]])

\* how many workers hold context c
HoldersOf(c) == BagCardinality([w \in {h \in Holding : h.ctx = c} |-> workers[w]])

\* how many goroutines Run started as workers
Started == BagCardinality(workers)

Min(a, b) == IF a < b THEN a ELSE b

\* C2: a run never gets stuck before the zombie phase: as long as Run has not
\* left the accumulation loop some task of the run can take a step.
C2_NeverStuck == (RunStarted /\ ~RunFinished) => ENABLED Next

\* the kubeconfigs that fit in the queue and the started workers together
FitsInQueue == Total <= QueueCap + Started

\* C3: a context of the ignore list is never among the removed contexts and,
\* once the accumulation loop has finished, is among the kept ones.
C3_IgnoredIsKept ==
    \A c \in AllContexts \cap Ignored :
        /\ c \notin Removed
        /\ LoopFinished => c \in Kept

\* an ignored context with a missing reference was kept while another
\* context was removed
C3_Witness ==
    /\ RunFinished
    /\ \E c \in AllContexts \cap Ignored : Dangling(c) /\ c \in Kept
    /\ Removed # {}

\* C4 as stated: whatever the ignore list, a context with a missing cluster
\* or user is never kept and ends among the removed contexts.
C4_DanglingIsRemoved ==
    \A c \in AllContexts :
        Dangling(c) => /\ c \notin Kept
                       /\ LoopFinished => c \in Removed

\* C4 amended: a context with a missing cluster or user that is not on the
\* ignore list is never kept and ends among the removed contexts.
C4_DanglingNotIgnoredIsRemoved ==
    \A c \in AllContexts \ Ignored :
        Dangling(c) => /\ c \notin Kept
                       /\ LoopFinished => c \in Removed

\* a context that only lacks its cluster was removed, with no probe made
C4_Witness ==
    /\ RunFinished
    /\ \E c \in AllContexts \ Ignored :
          /\ raw.Contexts[c].Cluster \notin DOMAIN raw.Clusters
          /\ raw.Contexts[c].AuthInfo \in DOMAIN raw.AuthInfos
          /\ c \in Removed
          /\ hist[c].probes = 0

\* no task of the run can take another step
Stuck == RunStarted /\ ~ENABLED Next

\* every context is enqueued at most once, received by at most one worker,
\* and its one outcome is consumed at most once, on the channel of that
\* outcome; the accumulator has consumed as many outcomes as it counts
AtMostOnce ==
    /\ \A c \in AllContexts :
          /\ hist[c].enq = (IF c \in toEnqueue THEN 0 ELSE 1)
          /\ hist[c].deq <= hist[c].enq
          /\ hist[c].sent <= hist[c].deq
          /\ HoldersOf(c) = hist[c].deq - hist[c].sent
          /\ hist[c].sent = 1 <=> c \in Kept \cup Removed
          /\ c \in Kept => hist[c].outcome = "success"
          /\ c \in Removed => hist[c].outcome = "failure"
    /\ received = Cardinality(Kept \cup Removed)

\* C5: exactly-once delivery: no context is enqueued, received, or consumed
\* twice, and none is omitted: a run that can go no further has enqueued,
\* handed to a worker and consumed every context once.
C5_ExactlyOnce ==
    /\ AtMostOnce
    /\ Stuck => \A c \in AllContexts :
                   hist[c].enq = 1 /\ hist[c].deq = 1 /\ hist[c].sent = 1

\* the domain restriction of a map
Restrict(m, keys) == [k \in (DOMAIN m) \cap keys |-> m[k]]

\* the contexts whose outcome was reachable, and the others
Reachable == {c \in AllContexts : hist[c].outcome = "success"}
Unreachable == {c \in AllContexts : hist[c].outcome = "failure"}

ClustersOf(ctxs) == {raw.Contexts[c].Cluster : c \in ctxs}
UsersOf(ctxs) == {raw.Contexts[c].AuthInfo : c \in ctxs}
UnusedClusters == DOMAIN raw.Clusters \ ClustersOf(AllContexts)
UnusedUsers == DOMAIN raw.AuthInfos \ UsersOf(AllContexts)

\* the two outputs as a function of the kubeconfig, the flags and the outcomes
ExpectedResult ==
    [Contexts |-> Restrict(raw.Contexts, Reachable),
     AuthInfos |-> Restrict(raw.AuthInfos,
                       UsersOf(Reachable) \cup
                       (IF CleanupUsers THEN {} ELSE UnusedUsers)),
     Clusters |-> Restrict(raw.Clusters,
                       ClustersOf(Reachable) \cup
                       (IF CleanupClusters THEN {} ELSE UnusedClusters)),
     Preferences |-> raw.Preferences,
     Extensions |-> raw.Extensions]

ExpectedRemoved ==
    [Contexts |-> Restrict(raw.Contexts, Unreachable),
     AuthInfos |-> Restrict(raw.AuthInfos,
                       UsersOf(Unreachable) \cup
                       (IF CleanupUsers THEN UnusedUsers ELSE {})),
     Clusters |-> Restrict(raw.Clusters,
                       ClustersOf(Unreachable) \cup
                       (IF CleanupClusters THEN UnusedClusters ELSE {})),
     Preferences |-> raw.Preferences,
     Extensions |-> raw.Extensions]

\* C6: the two outputs of a finished run are determined by the kubeconfig,
\* the ignore list, the flags and the outcome of each context, whatever the
\* order in which the outcomes arrived.
C6_Deterministic ==
    RunFinished => result = ExpectedResult /\ removed = ExpectedRemoved

\* a finished run in which two contexts on different clusters were kept
C6_Witness ==
    /\ RunFinished
    /\ \E c, d \in Kept : raw.Contexts[c].Cluster # raw.Contexts[d].Cluster
    /\ Cardinality(DOMAIN result.Clusters) >= 2

\* C7: after a run an unreferenced cluster is in the kept clusters only when
\* CleanupClusters is false and in the removed clusters only when it is true;
\* an unreferenced user follows CleanupUsers in the same way.
C7_ZombiePolicy ==
    RunFinished =>
        /\ \A cl \in UnusedClusters :
              /\ (cl \in DOMAIN result.Clusters) <=> ~CleanupClusters
              /\ (cl \in DOMAIN removed.Clusters) <=> CleanupClusters
        /\ \A u \in UnusedUsers :
              /\ (u \in DOMAIN result.AuthInfos) <=> ~CleanupUsers
              /\ (u \in DOMAIN removed.AuthInfos) <=> CleanupUsers

\* a finished run with an unreferenced cluster and an unreferenced user
\* under different flag values
C7_Witness ==
    /\ RunFinished
    /\ UnusedClusters # {}
    /\ UnusedUsers # {}
    /\ CleanupClusters # CleanupUsers
    /\ AllContexts # {}

\* C8: the zombie clusters are exactly the clusters of the kubeconfig that no
\* context names, and the zombie users exactly the users that no context
\* names, whether the contexts were kept, removed or ignored.
C8_ZombiesAreTheUnreferenced ==
    /\ DOMAIN clustersNotSpecifiedByAContext(raw) = UnusedClusters
    /\ DOMAIN usersNotSpecifiedByAContext(raw) = UnusedUsers
    /\ RunFinished => /\ zombieClusters = Restrict(raw.Clusters, UnusedClusters)
                      /\ zombieUsers = Restrict(raw.AuthInfos, UnusedUsers)

\* a finished run with a zombie cluster next to a cluster that only a
\* removed context names and a user that only a kept context names
C8_Witness ==
    /\ RunFinished
    /\ zombieClusters # EmptyMap
    /\ \E c \in Removed : raw.Contexts[c].Cluster \in DOMAIN raw.Clusters
    /\ \E c \in Kept : raw.Contexts[c].AuthInfo \in DOMAIN raw.AuthInfos

\* C9: Run starts exactly min(len(contexts), MaxWorkers) workers.
C9_WorkerCount ==
    (RunStarted /\ mainPc # "spawn") => Started = Min(Total, MaxWorkers)

\* C10: at most min(len(contexts), MaxWorkers) contexts are held by workers
\* at the same time.
C10_InFlightBound == InFlight <= Min(Total, MaxWorkers)

\* the contexts that name cluster cl, and those that name user u
OnCluster(cl) == {c \in AllContexts : raw.Contexts[c].Cluster = cl}
WithUser(u) == {c \in AllContexts : raw.Contexts[c].AuthInfo = u}

\* C11: after a run, a cluster of the kubeconfig named by a kept context and
\* by a removed context is among the kept and among the removed clusters;
\* likewise a user named by a kept and by a removed context.
C11_SharedEntryInBoth ==
    RunFinished =>
        /\ \A cl \in DOMAIN raw.Clusters :
              (OnCluster(cl) \cap Kept # {} /\ OnCluster(cl) \cap Removed # {})
                 => cl \in DOMAIN result.Clusters /\ cl \in DOMAIN removed.Clusters
        /\ \A u \in DOMAIN raw.AuthInfos :
              (WithUser(u) \cap Kept # {} /\ WithUser(u) \cap Removed # {})
                 => u \in DOMAIN result.AuthInfos /\ u \in DOMAIN removed.AuthInfos

\* a finished run with a cluster shared by a kept and a removed context
C11_Witness ==
    /\ RunFinished
    /\ \E cl \in DOMAIN raw.Clusters :
          /\ OnCluster(cl) \cap Kept # {}
          /\ OnCluster(cl) \cap Removed # {}
          /\ cl \in DOMAIN removed.Clusters

\* the contexts whose connection test ran and succeeded
TestSucceeded == {c \in AllContexts : hist[c].probes = 1 /\ hist[c].outcome = "success"}

\* C12 as stated: after a run, a context whose connection test succeeded has
\* its context, user and cluster entry in the kept config, and a context whose
\* test failed has none of the three in the kept config.
C12_KeptIffTestSucceeded ==
    RunFinished =>
        /\ \A c \in TestSucceeded :
              /\ c \in Kept
              /\ raw.Contexts[c].AuthInfo \in DOMAIN result.AuthInfos
              /\ raw.Contexts[c].Cluster \in DOMAIN result.Clusters
        /\ \A c \in Unreachable :
              /\ c \notin Kept
              /\ raw.Contexts[c].AuthInfo \notin DOMAIN result.AuthInfos
              /\ raw.Contexts[c].Cluster \notin DOMAIN result.Clusters

\* C12 amended: a context whose test succeeded has its three entries in the
\* kept config; a context whose test failed is not in the kept config, and
\* its user or cluster is there only if a kept context names it too.
C12_KeptUnlessShared ==
    RunFinished =>
        /\ \A c \in TestSucceeded :
              /\ c \in Kept
              /\ raw.Contexts[c].AuthInfo \in DOMAIN result.AuthInfos
              /\ raw.Contexts[c].Cluster \in DOMAIN result.Clusters
        /\ \A c \in Unreachable :
              /\ c \notin Kept
              /\ raw.Contexts[c].AuthInfo \in DOMAIN result.AuthInfos
                    => WithUser(raw.Contexts[c].AuthInfo) \cap Kept # {}
              /\ raw.Contexts[c].Cluster \in DOMAIN result.Clusters
                    => OnCluster(raw.Contexts[c].Cluster) \cap Kept # {}

\* a finished run in which one test succeeded and another failed, the failed
\* context's cluster being absent from the kept config
C12_Witness ==
    /\ RunFinished
    /\ TestSucceeded # {}
    /\ \E c \in Unreachable :
          /\ hist[c].probes = 1
          /\ raw.Contexts[c].Cluster \in DOMAIN raw.Clusters
          /\ raw.Contexts[c].Cluster \notin DOMAIN result.Clusters

\* every context failed, every cluster and user is named by a context, the
\* ignore list is empty and both cleanup flags are off
AllFailedNoZombies ==
    /\ RunFinished
    /\ Unreachable = AllContexts
    /\ UnusedClusters = {}
    /\ UnusedUsers = {}
    /\ IgnoreContexts = <<>>
    /\ ~CleanupClusters
    /\ ~CleanupUsers

\* C13 as stated: in that case every context is removed, none is kept, and
\* the kept config still has every cluster and every user of the kubeconfig.
C13_AllFailedKeepsEntries ==
    AllFailedNoZombies =>
        /\ Removed = AllContexts
        /\ Kept = {}
        /\ DOMAIN result.Clusters = DOMAIN raw.Clusters
        /\ DOMAIN result.AuthInfos = DOMAIN raw.AuthInfos

\* C13 amended: in that case every context is removed, none is kept, the
\* kept config has no cluster and no user, and the removed config has every
\* cluster and every user of the kubeconfig.
C13_AllFailedMovesEntries ==
    AllFailedNoZombies =>
        /\ Removed = AllContexts
        /\ Kept = {}
        /\ result.Clusters = EmptyMap
        /\ result.AuthInfos = EmptyMap
        /\ removed.Clusters = raw.Clusters
        /\ removed.AuthInfos = raw.AuthInfos

\* such a run on two contexts whose probes were made, with entries to move
C13_Witness ==
    /\ AllFailedNoZombies
    /\ Total >= 2
    /\ \A c \in AllContexts : hist[c].probes = 1
    /\ raw.Clusters # EmptyMap
    /\ raw.AuthInfos # EmptyMap

\* the kubeconfig of the scenario, with the second context failing and the
\* others reachable
ScenarioCase ==
    /\ RunFinished
    /\ AllContexts = 1..ScenarioContexts
    /\ \A c \in AllContexts : raw.Contexts[c] = [Cluster |-> c, AuthInfo |-> c]
    /\ DOMAIN raw.Clusters = AllContexts
    /\ DOMAIN raw.AuthInfos = AllContexts
    /\ IgnoreContexts = <<>>
    /\ \A c \in AllContexts :
          hist[c].outcome = (IF c = 2 THEN "failure" ELSE "success")

\* C14: after a run, a cluster or user named by some context and only by
\* removed contexts is in the removed config and not in the kept one; one
\* named only by kept contexts is in the kept config and not in the removed
\* one.  In the scenario the kept contexts are all but the second, and the
\* second's cluster and user are only in the removed config.
C14_UnsharedEntryFollowsContexts ==
    /\ RunFinished =>
          /\ \A cl \in DOMAIN raw.Clusters :
                /\ (OnCluster(cl) # {} /\ OnCluster(cl) \subseteq Removed)
                      => cl \in DOMAIN removed.Clusters /\ cl \notin DOMAIN result.Clusters
                /\ (OnCluster(cl) # {} /\ OnCluster(cl) \subseteq Kept)
                      => cl \in DOMAIN result.Clusters /\ cl \notin DOMAIN removed.Clusters
          /\ \A u \in DOMAIN raw.AuthInfos :
                /\ (WithUser(u) # {} /\ WithUser(u) \subseteq Removed)
                      => u \in DOMAIN removed.AuthInfos /\ u \notin DOMAIN result.AuthInfos
                /\ (WithUser(u) # {} /\ WithUser(u) \subseteq Kept)
                      => u \in DOMAIN result.AuthInfos /\ u \notin DOMAIN removed.AuthInfos
    /\ ScenarioCase =>
          /\ Kept = AllContexts \ {2}
          /\ Removed = {2}
          /\ DOMAIN removed.Clusters = {2}
          /\ DOMAIN removed.AuthInfos = {2}
          /\ DOMAIN result.Clusters = AllContexts \ {2}
          /\ DOMAIN result.AuthInfos = AllContexts \ {2}

\* the scenario, run to its end with every probe made
C14_Witness ==
    /\ ScenarioCase
    /\ \A c \in AllContexts : hist[c].probes = 1

\* C15 as stated: a context whose outcome was delivered was probed once if
\* it is not ignored and its cluster and user exist, and not at all otherwise.
C15_ProbedIffResolvable ==
    \A c \in AllContexts :
        hist[c].sent = 1 =>
            hist[c].probes = (IF c \notin Ignored /\ ~Dangling(c) THEN 1 ELSE 0)

\* C15 amended: a context is probed at most once, and only if it is not
\* ignored, its cluster and user exist and its client was built; a context
\* whose outcome was delivered was probed once exactly in that case.  An
\* ignored context is reachable without a probe, and a context whose client
\* could not be built, for a missing reference or any other error, is
\* unreachable without a probe.
C15_ProbedIffClientBuilt ==
    \A c \in AllContexts :
        /\ hist[c].probes <= 1
        /\ hist[c].probes = 1 =>
              c \notin Ignored /\ ~Dangling(c) /\ hist[c].client = "built"
        /\ (c \in Ignored /\ hist[c].deq = 1) =>
              /\ hist[c].outcome = "success"
              /\ hist[c].probes = 0
              /\ hist[c].client = "none"
        /\ (c \notin Ignored /\ Dangling(c) /\ hist[c].deq = 1) =>
              hist[c].client = "error"
        /\ hist[c].client = "error" =>
              hist[c].outcome = "failure" /\ hist[c].probes = 0
        /\ hist[c].sent = 1 =>
              (hist[c].probes = 1 <=> (c \notin Ignored /\ hist[c].client = "built"))
        /\ (hist[c].probes = 1 /\ hist[c].sent = 1) =>
              (c \in Kept \cup Removed) /\ (c \in Removed <=> hist[c].outcome = "failure")

\* a finished run with a context whose probe failed and a context, with its
\* cluster and user present, whose client could not be built
C15_Witness ==
    /\ RunFinished
    /\ \E c \in AllContexts : hist[c].probes = 1 /\ hist[c].outcome = "failure"
    /\ \E c \in AllContexts :
          ~Dangling(c) /\ hist[c].client = "error" /\ hist[c].probes = 0

\* C16: when init fails, on the ignore file, on the kubeconfig or otherwise,
\* the command returns that error and stops there: no worker exists, no
\* context was enqueued, received or probed, the kept and removed configs
\* were not allocated, nothing was printed, and no step follows.  A command
\* whose Run was called has no such error.
C16_InitFailureStopsCommand ==
    /\ mainPc = "failed" <=> cmdErr \in InitFailures
    /\ mainPc = "failed" =>
          /\ workers = EmptyBag
          /\ tickerPc = "off"
          /\ contexts = <<>>
          /\ ~contextsClosed
          /\ received = 0
          /\ completed = 0
          /\ \A c \in AllContexts : hist[c] = NoHist
          /\ result = NilConfig
          /\ removed = NilConfig
          /\ out = <<>>
          /\ ~ENABLED Next
    /\ mainPc \in {"init", "failed"} <=> result = NilConfig
    /\ mainPc \in {"init", "failed"} <=> removed = NilConfig

\* the command has failed on a kubeconfig that does not load, the file
\* holding contexts; and on an ignore file that does not parse
C16_Witness ==
    /\ mainPc = "failed"
    /\ cmdErr \in {"loadConfig", "parseIgnore", "readIgnore"}
    /\ Total > 0
    /\ IgnoreContexts # <<>>

\* the steps that set the outcome of context c to unreachable
BecomesUnreachable(c) ==
    hist[c].outcome = "none" /\ hist'[c].outcome = "failure"

\* C17: a client that cannot be built or a probe that fails makes its own
\* context unreachable and nothing more: the step leaves the position of Run,
\* its error and the history and placement of every other context as they
\* were; an outcome once set does not change; Run is never abandoned and
\* returns no error other than one of its final conversion or print; and
\* when the loop has finished each context is placed by its own outcome.
C17_FailuresAreContained ==
    /\ [](RunStarted => cmdErr \in PrintFailures \cup {"none"})
    /\ [](cmdErr # "none" => mainPc \in {"failed", "done"})
    /\ [](LoopFinished =>
             \A c \in AllContexts :
                /\ c \in Removed <=> hist[c].outcome = "failure"
                /\ c \in Kept <=> hist[c].outcome = "success")
    /\ [][\A c \in AllContexts :
             /\ hist[c].outcome # "none" => hist'[c].outcome = hist[c].outcome
             /\ BecomesUnreachable(c) =>
                   /\ UNCHANGED <<mainPc, cmdErr, out, result, removed, received>>
                   /\ \A d \in AllContexts \ {c} : hist'[d] = hist[d]
             /\ hist'[c] # hist[c] =>
                   \A d \in AllContexts \ {c} :
                      /\ hist'[d] = hist[d]
                      /\ d \in Kept' <=> d \in Kept
                      /\ d \in Removed' <=> d \in Removed]_vars
    /\ [][RunStarted => mainPc' # "failed"]_vars

\* a command that has ended without error after one context's client could
\* not be built, another's probe failed and a third was probed and kept
C17_Witness ==
    /\ mainPc = "done"
    /\ cmdErr = "none"
    /\ \E c \in Removed : hist[c].client = "error"
    /\ \E c \in Removed : hist[c].probes = 1
    /\ \E c \in Kept : hist[c].probes = 1

\* the number of workers that have handed over an outcome and not yet added
\* one to the counter
AtAdd ==
    BagCardinality([w \in {x \in BagToSet(workers) : x.pc = "add"} |-> workers[w]])

\* C18 as stated: with contexts to test, the accumulation loop has finished
\* exactly when the counter equals the number of contexts.
C18_DoneIffCompleted ==
    (RunStarted /\ Total > 0) => (LoopFinished <=> completed = Total)

\* C18 amended: the counter is the number of outcomes the accumulator has
\* consumed less the workers that have not yet counted theirs; so a counter
\* equal to the number of contexts implies a finished loop, and a finished
\* loop implies that counter only once no worker is left before its add.
C18_CompletedLagsLoop ==
    /\ completed = received - AtAdd
    /\ (RunStarted /\ Total > 0 /\ completed = Total) => LoopFinished
    /\ (LoopFinished /\ AtAdd = 0) => completed = Total
    /\ RunStarted => received <= Total

\* Run has returned while the counter is still short of the total
C18_Witness ==
    /\ mainPc = "done"
    /\ Total >= 2
    /\ completed < Total
    /\ AtAdd > 0

\* C19: the zombie phase is one step of Run, taken with every outcome
\* consumed and every context placed, and never again; before it no
\* entry that no context names is in either output and the zombie maps are
\* empty; after it the outputs and the zombie maps are not written again,
\* and the zombies are the entries of the kubeconfig that no context names,
\* whichever output the contexts went to.
C19_ZombiesOnceAfterAll ==
    /\ [][(mainPc' = "output" /\ mainPc # "output") =>
             /\ mainPc = "accumulate"
             /\ received = Total
             /\ \A c \in AllContexts : hist[c].sent = 1
             /\ Kept \cup Removed = AllContexts]_vars
    /\ [][(zombieClusters' # zombieClusters \/ zombieUsers' # zombieUsers) =>
             (mainPc = "accumulate" /\ mainPc' = "output")]_vars
    /\ [][RunFinished =>
             /\ mainPc' \in {"output", "done"}
             /\ UNCHANGED <<result, removed, zombieClusters, zombieUsers>>]_vars
    /\ []((RunStarted /\ ~RunFinished) =>
             /\ zombieClusters = EmptyMap
             /\ zombieUsers = EmptyMap
             /\ (DOMAIN result.Clusters \cup DOMAIN removed.Clusters) \cap UnusedClusters = {}
             /\ (DOMAIN result.AuthInfos \cup DOMAIN removed.AuthInfos) \cap UnusedUsers = {})
    /\ [](RunFinished =>
             /\ \A cl \in DOMAIN raw.Clusters :
                   cl \in DOMAIN zombieClusters <=> OnCluster(cl) = {}
             /\ \A u \in DOMAIN raw.AuthInfos :
                   u \in DOMAIN zombieUsers <=> WithUser(u) = {})

\* a finished run with zombies of both kinds next to a user that only
\* removed contexts name, which is no zombie
C19_Witness ==
    /\ RunFinished
    /\ zombieClusters # EmptyMap
    /\ zombieUsers # EmptyMap
    /\ \E u \in DOMAIN raw.AuthInfos :
          /\ WithUser(u) # {}
          /\ WithUser(u) \subseteq Removed
          /\ u \notin DOMAIN zombieUsers

\* the variables other than those of the progress goroutine
coreVars == <<raw, IgnoreContexts, CleanupClusters, CleanupUsers, PrintRemoved,
              PrintRaw, KubeconfigPath, environment, shortened, saveVars,
              cmdErr, out, result, removed, contexts, contextsClosed, completed,
              mainPc, toEnqueue, received, workers, zombieClusters,
              zombieUsers, hist>>

\* the steps of Run and of the workers
CoreNext ==
    \/ SpawnWorkers
    \/ Enqueue
    \/ CloseContexts
    \/ \E w \in BagToSet(workers) : WorkerReceive(w)
    \/ \E w \in BagToSet(workers) : WorkerProbe(w)
    \/ \E w \in BagToSet(workers) : ReceiveSuccess(w)
    \/ \E w \in BagToSet(workers) : ReceiveFailure(w)
    \/ \E w \in BagToSet(workers) : WorkerAdd(w)
    \/ \E w \in BagToSet(workers) : WorkerExit(w)
    \/ ZombiePhase
    \/ PrintResult

\* C20: a step of the progress goroutine changes nothing but its own
\* position, its last message and the closed state of the result channels;
\* the channels are closed only when no outcome is left to hand over, so the
\* one test of that state by the accumulator never decides; from the start
\* of the progress goroutine until Run returns, Run and the workers can take
\* a step without it; and the outputs of a finished run are those the
\* outcomes determine.
C20_ProgressIsObservational ==
    /\ [][(TickerLog \/ TickerClose) => UNCHANGED coreVars]_vars
    /\ [](resultsClosed =>
             /\ received = Total
             /\ completed = Total
             /\ \A w \in BagToSet(workers) : w.pc \in {"recv", "exit"})
    /\ []((tickerPc # "off" /\ mainPc # "done") => ENABLED CoreNext)
    /\ [](RunFinished => result = ExpectedResult /\ removed = ExpectedRemoved)

\* Run has returned with contexts kept and removed, the progress goroutine
\* having reported in between and closed the channels
C20_Witness ==
    /\ mainPc = "done"
    /\ tickerPc = "exited"
    /\ resultsClosed
    /\ Kept # {}
    /\ Removed # {}

\* the steps of the workers on their own, and those of the progress goroutine
WorkerStep ==
    \E w \in BagToSet(workers) :
       WorkerReceive(w) \/ WorkerProbe(w) \/ WorkerAdd(w) \/ WorkerExit(w)
TickerStep == TickerLog \/ TickerClose

\* the steps in which Run takes an outcome from a worker
AccumulatorStep ==
    \E w \in BagToSet(workers) : ReceiveSuccess(w) \/ ReceiveFailure(w)

\* C21: a step of a worker on its own or of the progress goroutine leaves
\* the kept and the removed config unchanged; once init has allocated them,
\* they change only in a step in which Run takes an outcome (keepContext
\* writes the kept, cleanupContext the removed config) or in the zombie phase.
C21_SingleWriter ==
    /\ [][(WorkerStep \/ TickerStep) => UNCHANGED <<result, removed>>]_vars
    /\ [][(RunStarted /\ (result' # result \/ removed' # removed)) =>
             (AccumulatorStep \/ ZombiePhase)]_vars
    /\ [][(RunStarted /\ result' # result /\ ~ZombiePhase) =>
             (removed' = removed /\ \E w \in BagToSet(workers) : ReceiveSuccess(w))]_vars
    /\ [][(RunStarted /\ removed' # removed /\ ~ZombiePhase) =>
             (result' = result /\ \E w \in BagToSet(workers) : ReceiveFailure(w))]_vars

\* the accumulation loop under way: a context kept, a context removed, a
\* worker about to probe and a progress message written
C21_Witness ==
    /\ mainPc = "accumulate"
    /\ Kept # {}
    /\ Removed # {}
    /\ \E w \in BagToSet(workers) : w.pc = "probe"
    /\ reported >= 0

\* C22: no step changes the key set of the contexts, the clusters or the
\* users of the kubeconfig, or what a key is bound to.
C22_RawConfigReadOnly ==
    [][/\ DOMAIN raw'.Contexts = DOMAIN raw.Contexts
       /\ DOMAIN raw'.Clusters = DOMAIN raw.Clusters
       /\ DOMAIN raw'.AuthInfos = DOMAIN raw.AuthInfos
       /\ \A c \in DOMAIN raw.Contexts : raw'.Contexts[c] = raw.Contexts[c]
       /\ \A cl \in DOMAIN raw.Clusters : raw'.Clusters[cl] = raw.Clusters[cl]
       /\ \A u \in DOMAIN raw.AuthInfos : raw'.AuthInfos[u] = raw.AuthInfos[u]]_vars

\* a finished run in which the workers built clients, the accumulator kept
\* and removed contexts and the detectors found zombies of both kinds
C22_Witness ==
    /\ RunFinished
    /\ \E c \in Kept : hist[c].client = "built"
    /\ \E c \in Removed : hist[c].client = "built"
    /\ zombieClusters # EmptyMap
    /\ zombieUsers # EmptyMap

\* the config Run selects for output, and whether it is empty
Selected == IF PrintRemoved THEN removed ELSE result
SelectedEmpty ==
    /\ DOMAIN Selected.Clusters = {}
    /\ DOMAIN Selected.Contexts = {}
    /\ DOMAIN Selected.AuthInfos = {}

C30_ChannelDiscipline ==
    /\ [](contextsClosed =>
             /\ toEnqueue = {}
             /\ mainPc \notin {"init", "failed", "spawn", "enqueue"}
             /\ \A c \in AllContexts : hist[c].enq = 1)
    /\ [](resultsClosed =>
             /\ contextsClosed
             /\ contexts = <<>>
             /\ \A w \in BagToSet(workers) : w.pc \in {"recv", "exit"}
             /\ \A c \in AllContexts : hist[c].sent = 1)
    /\ [][Enqueue => ~contextsClosed]_vars
    /\ [][AccumulatorStep => ~resultsClosed]_vars
    /\ [][CloseContexts => ~contextsClosed]_vars
    /\ [][TickerClose => ~resultsClosed]_vars
    /\ [][contextsClosed =>
             /\ contextsClosed'
             /\ Len(contexts') <= Len(contexts)
             /\ \A c \in AllContexts : hist'[c].enq = hist[c].enq]_vars
    /\ [][resultsClosed =>
             /\ resultsClosed'
             /\ received' = received
             /\ \A c \in AllContexts : hist'[c].sent = hist[c].sent]_vars
    /\ [][(contextsClosed' # contextsClosed) => CloseContexts]_vars
    /\ [][(resultsClosed' # resultsClosed) => TickerClose]_vars

\* the progress goroutine has closed the result channels of a run of two
\* contexts or more before Run went on to the zombie phase
C30_Witness ==
    /\ mainPc = "accumulate"
    /\ resultsClosed
    /\ contextsClosed
    /\ Total >= 2

\* C23: from the moment Run is called, the kept and the removed config both
\* hold the preferences and the extensions of the kubeconfig, which are not
\* those of a new config; no later step changes them in either.
C23_PreferencesCarried ==
    /\ [](RunStarted =>
             /\ result.Preferences = raw.Preferences
             /\ removed.Preferences = raw.Preferences
             /\ result.Extensions = raw.Extensions
             /\ removed.Extensions = raw.Extensions)
    /\ [][RunStarted =>
             /\ result'.Preferences = result.Preferences
             /\ removed'.Preferences = removed.Preferences
             /\ result'.Extensions = result.Extensions
             /\ removed'.Extensions = removed.Extensions]_vars

\* Run has ended with contexts kept and removed and with the preferences and
\* extensions of the file, not those of a new config, in both outputs
C23_Witness ==
    /\ mainPc = "done"
    /\ Kept # {}
    /\ Removed # {}
    /\ result.Preferences = FilePreferences
    /\ removed.Extensions = FileExtensions
    /\ NewConfig.Preferences # FilePreferences
    /\ NewConfig.Extensions # FileExtensions

C29_FlagWins ==
    /\ RunStarted
    /\ KubeconfigPath = "flag.yaml"
    /\ envKubeconfig = "env.yaml"

\* the sequential Run has gone through its loop and the zombies
SeqLoopDone == mainPc \in {"save", "print", "done"}

\* the contexts whose client the sequential Run could not build
Skipped == {c \in AllContexts : hist[c].outcome = "skipped"}

\* C25: once the sequential Run has tested all contexts, every context of
\* the kubeconfig that the ignore file lists is in the kept config, and so
\* are its user and its cluster as far as the kubeconfig has them.
C25_IgnoredIsMaintained ==
    SeqLoopDone =>
       \A c \in Ignored \cap AllContexts :
          /\ c \in Kept
          /\ raw.Contexts[c].AuthInfo \in DOMAIN raw.AuthInfos =>
                raw.Contexts[c].AuthInfo \in DOMAIN result.AuthInfos
          /\ raw.Contexts[c].Cluster \in DOMAIN raw.Clusters =>
                raw.Contexts[c].Cluster \in DOMAIN result.Clusters

\* C26: once the sequential Run with --save has tested all contexts, every
\* context of the kubeconfig is in the kept or in the removed config, and so
\* is every cluster and every user of the kubeconfig.
C26_NothingLost ==
    (Save /\ SeqLoopDone) =>
       /\ AllContexts \subseteq Kept \cup Removed
       /\ DOMAIN raw.Clusters \subseteq
             DOMAIN result.Clusters \cup DOMAIN removed.Clusters
       /\ DOMAIN raw.AuthInfos \subseteq
             DOMAIN result.AuthInfos \cup DOMAIN removed.AuthInfos

\* C27: the kubeconfig file is written at most once and only with --save;
\* the write happens when every context has been through the loop and before
\* anything is shortened or printed, and what it writes, to the path of the
\* kubeconfig, is the kept config of that moment with nothing redacted,
\* whatever --print-removed and --raw are; no later step changes the kept
\* config.
C27_SaveWritesKept ==
    /\ [](Len(saved) <= 1 /\ (saved # <<>> => Save))
    /\ [][saved' # saved =>
             /\ Len(saved) = 0
             /\ Len(saved') = 1
             /\ \A c \in AllContexts : hist[c].client # "none"
             /\ zombieClusters = clustersNotSpecifiedByAContext(raw)
             /\ shortened = {}
             /\ out = <<>>
             /\ UNCHANGED <<shortened, out, result, removed>>
             /\ saved'[1].config = result
             /\ saved'[1].redacted = {}
             /\ saved'[1].path = KubeconfigPath]_vars
    /\ [][saved # <<>> => UNCHANGED <<saved, result>>]_vars

\* the file has been written with the kept config unredacted, and then the
\* kept config, which differs from the removed one, was shortened and printed
C27_Witness ==
    /\ mainPc = "done"
    /\ saved # <<>>
    /\ ~PrintRaw
    /\ ~PrintRemoved
    /\ Kept # {}
    /\ Removed # {}
    /\ shortened # {}
    /\ out = <<result>>
    /\ saved[1].config = result
    /\ saved[1].redacted = {}

\* the file has been written with the kept config although the removed one,
\* which differs from it, is the one printed
C27_PrintRemovedCase ==
    /\ mainPc = "done"
    /\ saved # <<>>
    /\ PrintRemoved
    /\ PrintRaw
    /\ Removed # {}
    /\ out = <<removed>>
    /\ saved[1].config = result
    /\ result # removed

\* C28: Validate returns its error exactly when --print-removed and --save
\* are given without --raw, and otherwise Run starts; after that error the
\* command has ended, no connection has been tested, the file has not been
\* written and nothing has been shortened or printed.
C28_ValidateRejects ==
    /\ [][mainPc = "validate" =>
             /\ (mainPc' = "failed" /\ cmdErr' = "validate")
                   <=> (PrintRemoved /\ ~PrintRaw /\ Save)
             /\ mainPc' = "loop" <=> ~(PrintRemoved /\ ~PrintRaw /\ Save)]_vars
    /\ [](cmdErr = "validate" =>
             /\ mainPc = "failed"
             /\ \A c \in AllContexts : hist[c] = NoHist
             /\ saved = <<>>
             /\ shortened = {}
             /\ out = <<>>)
    /\ [][mainPc = "failed" => UNCHANGED vars]_vars

\* Validate has rejected the flags of a command on a kubeconfig with contexts
C28_Witness ==
    /\ cmdErr = "validate"
    /\ mainPc = "failed"
    /\ PrintRemoved /\ ~PrintRaw /\ Save
    /\ AllContexts # {}

\* with --raw the same command has run, written the file and printed
C28_AcceptedCase ==
    /\ mainPc = "done"
    /\ PrintRemoved /\ PrintRaw /\ Save
    /\ saved # <<>>
    /\ out # <<>>
    /\ \E c \in AllContexts : hist[c].probes = 1

\* the accumulator is at a receive of its select with the result channels
\* closed, which would hand it the zero value
ReceivesFromClosed ==
    /\ mainPc = "accumulate"
    /\ received < Total
    /\ resultsClosed

\* C31: the step that closes the result channels is taken with all outcomes
\* received, so the accumulator is never at a receive with the channels
\* closed; every name a worker holds, and every name the accumulator takes
\* and hands to keepContext or cleanupContext, is a context of the
\* kubeconfig, and the outputs hold no other context.
C31_CloseAfterAllReceived ==
    /\ [][resultsClosed' # resultsClosed =>
             /\ ~resultsClosed
             /\ tickerPc = "running"
             /\ received = Total
             /\ received' = Total]_vars
    /\ [](~ReceivesFromClosed)
    /\ [](\A w \in BagToSet(workers) :
             w.pc \in {"probe", "send", "add"} => w.ctx \in AllContexts)
    /\ [][received' # received =>
             \E c \in AllContexts :
                /\ hist'[c].sent = hist[c].sent + 1
                /\ Kept' \cup Removed' = Kept \cup Removed \cup {c}]_vars
    /\ [](Kept \cup Removed \subseteq AllContexts)

\* the result channels are closed while Run is still in its loop statement,
\* with the outcomes of two or more contexts taken, kept and removed
C31_Witness ==
    /\ resultsClosed
    /\ mainPc = "accumulate"
    /\ received = Total
    /\ Total >= 2
    /\ Kept # {}
    /\ Removed # {}

\* C32: the counter is never negative, never above the number of outcomes
\* the accumulator has received, which is never above the number of
\* contexts; the last progress message names no more than that number; a
\* step changes the counter only by adding one.
C32_CounterBounds ==
    /\ [](0 <= completed /\ completed <= received /\ received <= Total)
    /\ [](reported <= Total /\ reported <= completed)
    /\ [][completed' = completed \/ completed' = completed + 1]_vars
    /\ [][received' = received \/ received' = received + 1]_vars

\* an outcome has been received that its worker has not counted yet, and a
\* progress message has reported a counter that has moved on since
C32_Witness ==
    /\ completed >= 1
    /\ completed < received
    /\ reported >= 0
    /\ reported < completed

\* C33: after a run, whatever the cleanup flags, the clusters of the two
\* outputs together are the clusters of the kubeconfig and the users of the
\* two outputs together are its users, each bound to the entry the
\* kubeconfig binds it to.
C33_EntryCoverage ==
    RunFinished =>
       /\ DOMAIN result.Clusters \cup DOMAIN removed.Clusters = DOMAIN raw.Clusters
       /\ DOMAIN result.AuthInfos \cup DOMAIN removed.AuthInfos = DOMAIN raw.AuthInfos
       /\ \A cl \in DOMAIN result.Clusters : result.Clusters[cl] = raw.Clusters[cl]
       /\ \A cl \in DOMAIN removed.Clusters : removed.Clusters[cl] = raw.Clusters[cl]
       /\ \A u \in DOMAIN result.AuthInfos : result.AuthInfos[u] = raw.AuthInfos[u]
       /\ \A u \in DOMAIN removed.AuthInfos : removed.AuthInfos[u] = raw.AuthInfos[u]

\* a finished run on a kubeconfig with a cluster that no context names, a
\* user that no context names, and a context naming a cluster that does
\* not exist
C33_Witness ==
    /\ RunFinished
    /\ UnusedClusters # {}
    /\ UnusedUsers # {}
    /\ CleanupClusters /\ ~CleanupUsers
    /\ \E c \in Kept \cup Removed : raw.Contexts[c].Cluster \notin DOMAIN raw.Clusters

\* C34: after a run, a kept context that is not on the ignore list has its
\* cluster and its user among the kept entries; a context in either output
\* has each of its references that the kubeconfig has in that same output;
\* a reference the kubeconfig does not have is in neither output, and Run
\* goes on to its output without an error.
C34_ReferentialClosure ==
    RunFinished =>
       /\ \A c \in Kept \ Ignored :
             /\ raw.Contexts[c].Cluster \in DOMAIN result.Clusters
             /\ raw.Contexts[c].AuthInfo \in DOMAIN result.AuthInfos
       /\ \A c \in Kept :
             /\ raw.Contexts[c].Cluster \in DOMAIN raw.Clusters =>
                   raw.Contexts[c].Cluster \in DOMAIN result.Clusters
             /\ raw.Contexts[c].AuthInfo \in DOMAIN raw.AuthInfos =>
                   raw.Contexts[c].AuthInfo \in DOMAIN result.AuthInfos
       /\ \A c \in Removed :
             /\ raw.Contexts[c].Cluster \in DOMAIN raw.Clusters =>
                   raw.Contexts[c].Cluster \in DOMAIN removed.Clusters
             /\ raw.Contexts[c].AuthInfo \in DOMAIN raw.AuthInfos =>
                   raw.Contexts[c].AuthInfo \in DOMAIN removed.AuthInfos
       /\ \A c \in Kept \cup Removed :
             /\ raw.Contexts[c].Cluster \notin DOMAIN raw.Clusters =>
                   raw.Contexts[c].Cluster \notin
                      DOMAIN result.Clusters \cup DOMAIN removed.Clusters
             /\ raw.Contexts[c].AuthInfo \notin DOMAIN raw.AuthInfos =>
                   raw.Contexts[c].AuthInfo \notin
                      DOMAIN result.AuthInfos \cup DOMAIN removed.AuthInfos
       /\ mainPc = "output" => cmdErr = "none"

\* a finished run in which an ignored context naming a cluster that does not
\* exist was kept with its user, and a context with such a reference was
\* removed with the reference it has
C34_Witness ==
    /\ RunFinished
    /\ \E c \in Kept \cap Ignored :
          /\ raw.Contexts[c].Cluster \notin DOMAIN raw.Clusters
          /\ raw.Contexts[c].AuthInfo \in DOMAIN result.AuthInfos
    /\ \E c \in Removed :
          /\ Dangling(c)
          /\ \/ raw.Contexts[c].Cluster \in DOMAIN removed.Clusters
             \/ raw.Contexts[c].AuthInfo \in DOMAIN removed.AuthInfos

\* C35: after a run with CleanupClusters the kept clusters are exactly the
\* clusters of the kubeconfig that a kept context names, and after a run
\* without it the removed clusters are exactly those a removed context
\* names; likewise for the users and CleanupUsers.
C35_ReferencedOnly ==
    RunFinished =>
       /\ CleanupClusters =>
             DOMAIN result.Clusters = ClustersOf(Kept) \cap DOMAIN raw.Clusters
       /\ ~CleanupClusters =>
             DOMAIN removed.Clusters = ClustersOf(Removed) \cap DOMAIN raw.Clusters
       /\ CleanupUsers =>
             DOMAIN result.AuthInfos = UsersOf(Kept) \cap DOMAIN raw.AuthInfos
       /\ ~CleanupUsers =>
             DOMAIN removed.AuthInfos = UsersOf(Removed) \cap DOMAIN raw.AuthInfos

\* a finished run with contexts kept and removed, a cluster and a user that
\* no context names, and the two flags set differently
C35_Witness ==
    /\ RunFinished
    /\ Kept # {}
    /\ Removed # {}
    /\ UnusedClusters # {}
    /\ UnusedUsers # {}
    /\ CleanupClusters /\ ~CleanupUsers
    /\ DOMAIN result.Clusters # {}
    /\ DOMAIN removed.AuthInfos # {}

\* the steps of Run that wait for no other goroutine
MainStep == SpawnWorkers \/ CloseContexts \/ ZombiePhase \/ PrintResult

\* C36: in a run on a kubeconfig without contexts no worker ever holds a
\* name, nothing is received or counted, the two outputs have no context,
\* and Run always has a next step of its own until it has returned; after
\* it every cluster and every user is a zombie, all in the kept config
\* without the cleanup flag and all in the removed config with it.
C36_NoContexts ==
    (Total = 0 /\ RunStarted) =>
       /\ \A w \in BagToSet(workers) : w.pc \in {"recv", "exit"}
       /\ contexts = <<>>
       /\ received = 0
       /\ completed = 0
       /\ Kept = {}
       /\ Removed = {}
       /\ mainPc # "done" => ENABLED MainStep
       /\ mainPc \in {"spawn", "enqueue", "accumulate", "output", "done"}
       /\ RunFinished =>
             /\ zombieClusters = raw.Clusters
             /\ zombieUsers = raw.AuthInfos
             /\ result.Clusters = IF CleanupClusters THEN EmptyMap ELSE raw.Clusters
             /\ removed.Clusters = IF CleanupClusters THEN raw.Clusters ELSE EmptyMap
             /\ result.AuthInfos = IF CleanupUsers THEN EmptyMap ELSE raw.AuthInfos
             /\ removed.AuthInfos = IF CleanupUsers THEN raw.AuthInfos ELSE EmptyMap

\* Run has returned on a kubeconfig without contexts, with clusters and
\* users, the flags set differently
C36_Witness ==
    /\ mainPc = "done"
    /\ Total = 0
    /\ DOMAIN raw.Clusters # {}
    /\ DOMAIN raw.AuthInfos # {}
    /\ CleanupClusters /\ ~CleanupUsers

\* C37: when Run has returned, the progress goroutine has read the counter
\* at the number of contexts, written its last message, closed the result
\* channels and ended, and every worker has ended.
C37_AllEndedAtReturn ==
    mainPc = "done" =>
       /\ tickerPc = "exited"
       /\ reported = Total
       /\ resultsClosed
       /\ \A w \in BagToSet(workers) : w.pc = "exit"

====
